---------------------------- MODULE Spec2Model ----------------------------
(***************************************************************************)
(* Model of the SDS processing backend (src/backend/app.py): the record    *)
(* consolidation functions merge_by_cas_number_optional and                *)
(* check_for_duplicates, and the /api/upload handler upload_files that     *)
(* drives them.                                                            *)
(*                                                                         *)
(* Text values are sequences of one-character strings, so that str.strip() *)
(* and str.lower() are computed character by character.                    *)
(***************************************************************************)
EXTENDS Integers, Sequences, FiniteSets, TLC

(***************************************************************************)
(* Bounds of the model.                                                    *)
(***************************************************************************)
MaxRows == 3
MaxExisting == 2
MaxNew == 2
MaxPdfs == 3

(***************************************************************************)
(* Python string operations.                                               *)
(***************************************************************************)
UpperLetters == <<"A","B","C","D","E","F","G","H","I","J","K","L","M",
                  "N","O","P","Q","R","S","T","U","V","W","X","Y","Z">>
LowerLetters == <<"a","b","c","d","e","f","g","h","i","j","k","l","m",
                  "n","o","p","q","r","s","t","u","v","w","x","y","z">>

IsSpace(c) == c \in {" ", "\t", "\n", "\r"}

LowerChar(c) ==
    IF \E k \in 1..26 : UpperLetters[k] = c
    THEN LowerLetters[CHOOSE k \in 1..26 : UpperLetters[k] = c]
    ELSE c

\* str.lower()
Lower(s) == [k \in 1..Len(s) |-> LowerChar(s[k])]

RECURSIVE LStrip(_)
LStrip(s) == IF s # <<>> /\ IsSpace(Head(s)) THEN LStrip(Tail(s)) ELSE s

RECURSIVE RStrip(_)
RStrip(s) ==
    IF s # <<>> /\ IsSpace(s[Len(s)]) THEN RStrip(SubSeq(s, 1, Len(s) - 1)) ELSE s

\* str.strip()
Strip(s) == RStrip(LStrip(s))

Digits == <<"0","1","2","3","4","5","6","7","8","9">>

\* str(n) of a non-negative integer
RECURSIVE Str(_)
Str(n) == IF n < 10 THEN <<Digits[n + 1]>> ELSE Str(n \div 10) \o <<Digits[(n % 10) + 1]>>

(***************************************************************************)
(* Literals of the program.                                                *)
(***************************************************************************)
NDA == <<"N","D","A">>
EMPTY == <<>>
MSDS == <<"M","S","D","S">>
NoCasPrefix == <<"n","o","_","c","a","s","_">>

\* pandas' missing value (NaN) of a cell read from the spreadsheet; no text
\* value has a multi-character element, so it equals none of them
NaN == <<"NaN">>

\* COLUMNS (the degree sign of "(°C)" is left out of the three column names
\* that carry it)
COLUMNS == <<
    "Description",
    "CAS Number",
    "Material Name",
    "Trade Name",
    "Physical state",
    "Static Hazard",
    "Vapour Pressure",
    "Flash Point (C)",
    "Flammable Limits by Volume (LEL, UEL)",
    "Melting Point (C)",
    "Boiling Point (C)",
    "Density",
    "Relative Vapour Density (Air = 1)",
    "Ignition Temperature (C)",
    "Threshold Limit Value (ppm)",
    "Immediate Danger to Life in Humans",
    "LD50 (mg/kg)",
    "LC50",
    "Source of Information" >>

ColumnSet == {COLUMNS[k] : k \in 1..Len(COLUMNS)}

(***************************************************************************)
(* Values the model draws its inputs from.                                 *)
(***************************************************************************)
CAS_A == <<"6","7","-","6","4","-","1">>
CAS_A_PAD == <<" ","6","7","-","6","4","-","1"," ">>
CAS_B == <<"5","0","-","0","0","-","0">>
NDA_LC == <<"n","d","a">>
NA_LC == <<"n","/","a">>
NA_UC == <<"N","/","A">>
DescA == <<"a","c","e","t","o","n","e">>
DescA_UC == <<" ","A","c","e","t","o","n","e">>
DescB == <<"b","_","1">>
DescC == <<"c">>
SPACE == <<" ">>
Liquid == <<"L","i","q","u","i","d">>
Solid == <<"S","o","l","i","d">>

\* a record with every schema column: the three columns given, the constant
\* source tag, and "NDA" elsewhere
MkRow(desc, cas, phys) ==
    [c \in ColumnSet |->
        CASE c = "Description" -> desc
          [] c = "CAS Number" -> cas
          [] c = "Physical state" -> phys
          [] c = "Source of Information" -> MSDS
          [] OTHER -> NDA]

RowPool == {
    MkRow(DescA, CAS_A, NDA),
    MkRow(DescB, CAS_A_PAD, Liquid),
    MkRow(DescA, CAS_A, NA_LC),
    MkRow(DescB, CAS_A, Solid),
    MkRow(DescA, NDA, Liquid),
    MkRow(DescA, NDA, NDA),
    MkRow(DescA, EMPTY, Solid),
    MkRow(DescA, NA_UC, NDA),
    MkRow(DescB, CAS_B, EMPTY),
    MkRow(DescB, NDA_LC, Liquid) }

\* the sequences over S of length at most n
SeqsUpTo(S, n) == UNION {[1..k -> S] : k \in 0..n}

\* those of them that repeat no element
DistinctSeqsUpTo(S, n) ==
    {s \in SeqsUpTo(S, n) : \A i, j \in 1..Len(s) : i # j => s[i] # s[j]}

(***************************************************************************)
(* merge_by_cas_number_optional                                            *)
(***************************************************************************)
\* the values a merge treats as "no value": ["", "NDA", None, "n/a"]
\* (None is no value of a record built by parse_sds_data)
MergeSentinels == {EMPTY, NDA, NA_LC}

\* the values of a stripped, lower-cased CAS Number that stand for "no CAS":
\* ["nda", "", "n/a"]
NoCasValues == {NDA_LC, EMPTY, NA_LC}

\* the dict key of a row, given the dict built so far
KeyMutNoCounter(row, merged) ==
    LET cas_key == Strip(row["CAS Number"])
    IN  IF Lower(cas_key) \in NoCasValues
        THEN NoCasPrefix \o row["Description"]
        ELSE cas_key

KeyMutConstCounter(row, merged) ==
    LET cas_key == Strip(row["CAS Number"])
    IN  IF Lower(cas_key) \in NoCasValues
        THEN NoCasPrefix \o row["Description"] \o <<"_">> \o Str(0)
        ELSE cas_key

CasKey(row, merged) ==
    LET cas_key == Strip(row["CAS Number"])
    IN  IF Lower(cas_key) \in NoCasValues
        THEN NoCasPrefix \o row["Description"] \o <<"_">> \o Str(Len(merged))
        ELSE cas_key

\* merged is the dict, in insertion order: a sequence of [key, rec]
KeyIndex(merged, key) == CHOOSE k \in 1..Len(merged) : merged[k].key = key

HasKey(merged, key) == \E k \in 1..Len(merged) : merged[k].key = key

\* for col in COLUMNS: fill a sentinel of the accumulator from the new row
FillMutOverwrite(current, new) ==
    [col \in ColumnSet |->
        IF new[col] \notin MergeSentinels THEN new[col] ELSE current[col]]

FillMutNoNa(current, new) ==
    [col \in ColumnSet |->
        IF current[col] \in {EMPTY, NDA} /\ new[col] \notin {EMPTY, NDA}
        THEN new[col] ELSE current[col]]

FillRow(current, new) ==
    [col \in ColumnSet |->
        IF current[col] \in MergeSentinels /\ new[col] \notin MergeSentinels
        THEN new[col]
        ELSE current[col]]

\* one iteration of "for row in rows"
MergeRow(merged, row) ==
    LET key == CasKey(row, merged)
    IN  IF ~HasKey(merged, key)
        THEN Append(merged, [key |-> key, rec |-> row])
        ELSE [merged EXCEPT ![KeyIndex(merged, key)].rec = FillRow(@, row)]

RECURSIVE MergeFold(_, _)
MergeFold(merged, rows) ==
    IF rows = <<>> THEN merged ELSE MergeFold(MergeRow(merged, Head(rows)), Tail(rows))

\* list(merged.values())
DictValues(merged) == [k \in 1..Len(merged) |-> merged[k].rec]

merge_by_cas_number_optional(rows, merge_duplicates) ==
    IF rows = <<>> THEN <<>>
    ELSE IF ~merge_duplicates THEN rows
    ELSE DictValues(MergeFold(<<>>, rows))


(***************************************************************************)
(* check_for_duplicates                                                    *)
(*                                                                         *)
(* A DataFrame is [columns |-> the sequence of its column names,           *)
(* rows |-> the sequence of its rows, each a function on those columns].   *)
(* The result is [raised |-> whether the call raised, df |-> the rows      *)
(* returned].                                                              *)
(***************************************************************************)
HasColumn(df, col) == \E k \in 1..Len(df.columns) : df.columns[k] = col

\* set(df[col].dropna().astype(str).str.strip().str.lower())
ColumnValuesMutNoNorm(df, col) ==
    {df.rows[k][col] : k \in {j \in 1..Len(df.rows) : df.rows[j][col] # NaN}}

ColumnValues(df, col) ==
    {Lower(Strip(df.rows[k][col])) :
        k \in {j \in 1..Len(df.rows) : df.rows[j][col] # NaN}}

\* existing_cas, after existing_cas.discard("nda")
ExistingCas(existing_df) == ColumnValues(existing_df, "CAS Number") \ {NDA_LC}

\* existing_desc
ExistingDesc(existing_df) == ColumnValues(existing_df, "Description")

\* cas_filter and desc_filter, for one row of new_data_df
CasFilter(existing_df, row) ==
    Lower(Strip(row["CAS Number"])) \notin ExistingCas(existing_df)

DescFilter(existing_df, row) ==
    Lower(Strip(row["Description"])) \notin ExistingDesc(existing_df)

\* duplicate_filters: the filters appended, in order
DuplicateFilters(existing_df, mode) ==
    (IF mode \in {"cas", "both"} /\ HasColumn(existing_df, "CAS Number")
     THEN <<"cas">> ELSE <<>>)
    \o
    (IF mode \in {"description", "both"} /\ HasColumn(existing_df, "Description")
     THEN <<"description">> ELSE <<>>)

ApplyFilter(name, existing_df, row) ==
    IF name = "cas" THEN CasFilter(existing_df, row) ELSE DescFilter(existing_df, row)

\* combined_filter, for one row of new_data_df
CombinedMutOr(filters, mode, existing_df, row) ==
    IF mode = "both"
    THEN ApplyFilter(filters[1], existing_df, row) \/ ApplyFilter(filters[2], existing_df, row)
    ELSE ApplyFilter(filters[1], existing_df, row)

CombinedFilter(filters, mode, existing_df, row) ==
    IF mode = "both"
    THEN ApplyFilter(filters[1], existing_df, row) /\ ApplyFilter(filters[2], existing_df, row)
    ELSE ApplyFilter(filters[1], existing_df, row)

check_for_duplicates(existing_df, new_data_df, duplicate_check_mode) ==
    LET filters == DuplicateFilters(existing_df, duplicate_check_mode)
    IN  IF duplicate_check_mode = "none"
        THEN [raised |-> FALSE, df |-> new_data_df]
        ELSE IF Len(existing_df.rows) = 0
        THEN [raised |-> FALSE, df |-> new_data_df]
        ELSE IF filters = <<>>
        THEN [raised |-> FALSE, df |-> new_data_df]
        ELSE IF duplicate_check_mode = "both" /\ Len(filters) < 2
        THEN [raised |-> TRUE, df |-> <<>>]   \* duplicate_filters[1]: IndexError
        ELSE [raised |-> FALSE,
              df |-> SelectSeq(new_data_df,
                        LAMBDA row : CombinedFilter(filters, duplicate_check_mode,
                                                    existing_df, row))]

(***************************************************************************)
(* parse_sds_data, on a text given as the sequence of its tokens (labels,  *)
(* values and white space, each a text value).                             *)
(***************************************************************************)
IsDigit(c) == \E k \in 1..10 : Digits[k] = c

\* \d{2,7}-\d{2}-\d
IsCasShaped(t) ==
    /\ Len(t) >= 7 /\ Len(t) <= 12
    /\ \A k \in 1..(Len(t) - 5) : IsDigit(t[k])
    /\ t[Len(t) - 4] = "-"
    /\ IsDigit(t[Len(t) - 3]) /\ IsDigit(t[Len(t) - 2])
    /\ t[Len(t) - 1] = "-"
    /\ IsDigit(t[Len(t)])

L_CAS_NO == <<"C","A","S","-","N","o",".",":">>
L_CAS_HASH == <<"C","A","S","#">>
L_PHYS == <<"P","h","y","s","i","c","a","l"," ","s","t","a","t","e",":">>
NEWLINE == <<"\n">>

\* the labels of the labelled patterns of cas_patterns the texts of the model
\* can hold, in the order of the list, lower-cased (re.IGNORECASE)
CasLabels == << Lower(L_CAS_NO), Lower(L_CAS_HASH) >>

\* the index of the first token after position k that is not white space, or 0
NextToken(text, k) ==
    LET later == {j \in (k + 1)..Len(text) : Strip(text[j]) # <<>>}
    IN  IF later = {} THEN 0 ELSE CHOOSE j \in later : \A m \in later : j <= m

\* re.findall(pattern, text) of a labelled pattern: the CAS numbers that
\* follow the label, as positions in text order
LabelledMatches(text, label) ==
    {k \in 1..Len(text) :
        /\ Lower(text[k]) = label
        /\ NextToken(text, k) # 0
        /\ IsCasShaped(text[NextToken(text, k)])}

BareMatches(text) == {k \in 1..Len(text) : IsCasShaped(text[k])}

\* the first labelled pattern, from position p of the list on, that matches
RECURSIVE FirstLabelled(_, _)
FirstLabelled(text, p) ==
    IF p > Len(CasLabels) THEN 0
    ELSE IF LabelledMatches(text, CasLabels[p]) # {} THEN p
    ELSE FirstLabelled(text, p + 1)

SetMinOf(S) == CHOOSE x \in S : \A y \in S : x <= y

CasMutBareFirst(text) ==
    IF BareMatches(text) # {}
    THEN Strip(text[SetMinOf(BareMatches(text))])
    ELSE NDA

extract_cas_number(text) ==
    LET p == FirstLabelled(text, 1)
    IN  IF p # 0
        THEN Strip(text[NextToken(text, SetMinOf(LabelledMatches(text, CasLabels[p])))])
        ELSE IF BareMatches(text) # {}
        THEN Strip(text[SetMinOf(BareMatches(text))])
        ELSE NDA

\* the characters of the tokens from position k on
RECURSIVE Flatten(_, _)
Flatten(text, k) == IF k > Len(text) THEN <<>> ELSE text[k] \o Flatten(text, k + 1)

\* the longest prefix matching [^\n\r.]+
RECURSIVE UpToLineEnd(_)
UpToLineEnd(s) ==
    IF s = <<>> \/ Head(s) \in {"\n", "\r", "."} THEN <<>>
    ELSE <<Head(s)>> \o UpToLineEnd(Tail(s))

\* find_between for "Physical state": after the label and any white space,
\* the text up to the end of the line or a period, stripped (the texts of the
\* model hold no digit there, so clean_numeric_value is not applied)
PhysicalState(text) ==
    LET hits == {k \in 1..Len(text) :
                    /\ Lower(text[k]) = Lower(L_PHYS)
                    /\ NextToken(text, k) # 0}
    IN  IF hits = {} THEN NDA
        ELSE Strip(UpToLineEnd(Flatten(text, NextToken(text, SetMinOf(hits)))))

\* os.path.splitext(source_filename)[0]
SplitExt(name) ==
    LET dots == {k \in 1..Len(name) :
                    /\ name[k] = "."
                    /\ \E j \in 1..(k - 1) : name[j] # "."}
    IN  IF dots = {} THEN name
        ELSE SubSeq(name, 1, (CHOOSE k \in dots : \A m \in dots : m <= k) - 1)

(***************************************************************************)
(* Lexemes: the words, numbers and signs the texts and the patterns are    *)
(* written with.                                                           *)
(***************************************************************************)
COLON == <<":">>
PERCENT == <<"%">>
DASH == <<"-">>
LPAREN == <<"(">>
RPAREN == <<")">>
SLASH == <<"/">>
EQUALS == <<"=">>
COMMA == <<",">>
AT_SIGN == <<"@">>
AMPERSAND == <<"&">>

\* the lexemes of the patterns, in lower case
p_1 == <<"1">>
p_and_or_relative_density == <<"a","n","d"," ","/"," ","o","r"," ","r","e","l","a","t","i","v","e"," ","d","e","n","s","i","t","y">>
p_anti_static == <<"a","n","t","i","-","s","t","a","t","i","c">>
p_anti_static_sp == <<"a","n","t","i"," ","s","t","a","t","i","c">>
p_antistatic == <<"a","n","t","i","s","t","a","t","i","c">>
p_at == <<"a","t">>
p_bond == <<"b","o","n","d">>
p_bonding == <<"b","o","n","d","i","n","g">>
p_c == <<"c">>
p_container == <<"c","o","n","t","a","i","n","e","r">>
p_containers == <<"c","o","n","t","a","i","n","e","r","s">>
p_degree == <<"d","e","g","r","e","e">>
p_density == <<"d","e","n","s","i","t","y">>
p_does_not_burn == <<"d","o","e","s"," ","n","o","t"," ","b","u","r","n">>
p_electrostatic_charge == <<"e","l","e","c","t","r","o","s","t","a","t","i","c"," ","c","h","a","r","g","e">>
p_electrostatic_discharge == <<"e","l","e","c","t","r","o","s","t","a","t","i","c"," ","d","i","s","c","h","a","r","g","e">>
p_electrostatic_ignition == <<"e","l","e","c","t","r","o","s","t","a","t","i","c"," ","i","g","n","i","t","i","o","n">>
p_explosive_limit == <<"e","x","p","l","o","s","i","v","e"," ","l","i","m","i","t">>
p_explosive_limits == <<"e","x","p","l","o","s","i","v","e"," ","l","i","m","i","t","s">>
p_explosive_range == <<"e","x","p","l","o","s","i","v","e"," ","r","a","n","g","e">>
p_f == <<"f">>
p_flammability_limit == <<"f","l","a","m","m","a","b","i","l","i","t","y"," ","l","i","m","i","t">>
p_flammability_limits == <<"f","l","a","m","m","a","b","i","l","i","t","y"," ","l","i","m","i","t","s">>
p_flammable_limit == <<"f","l","a","m","m","a","b","l","e"," ","l","i","m","i","t">>
p_flammable_limits == <<"f","l","a","m","m","a","b","l","e"," ","l","i","m","i","t","s">>
p_flammable_range == <<"f","l","a","m","m","a","b","l","e"," ","r","a","n","g","e">>
p_ground == <<"g","r","o","u","n","d">>
p_grounding == <<"g","r","o","u","n","d","i","n","g">>
p_handling == <<"h","a","n","d","l","i","n","g">>
p_handling_and_storage == <<"h","a","n","d","l","i","n","g"," ","a","n","d"," ","s","t","o","r","a","g","e">>
p_k == <<"k">>
p_lel == <<"l","e","l">>
p_lfl == <<"l","f","l">>
p_lower == <<"l","o","w","e","r">>
p_lower_explosive_limit == <<"l","o","w","e","r"," ","e","x","p","l","o","s","i","v","e"," ","l","i","m","i","t">>
p_lower_flammable_limit == <<"l","o","w","e","r"," ","f","l","a","m","m","a","b","l","e"," ","l","i","m","i","t">>
p_measures_to_prevent == <<"m","e","a","s","u","r","e","s"," ","t","o"," ","p","r","e","v","e","n","t">>
p_na == <<"n","a">>
p_no == <<"n","o">>
p_no_data_available == <<"n","o"," ","d","a","t","a"," ","a","v","a","i","l","a","b","l","e">>
p_no_electrostatic_hazard == <<"n","o"," ","e","l","e","c","t","r","o","s","t","a","t","i","c"," ","h","a","z","a","r","d">>
p_no_static_hazard == <<"n","o"," ","s","t","a","t","i","c"," ","h","a","z","a","r","d">>
p_non_combustible == <<"n","o","n","-","c","o","m","b","u","s","t","i","b","l","e">>
p_non_combustible_sp == <<"n","o","n"," ","c","o","m","b","u","s","t","i","b","l","e">>
p_non_flammable == <<"n","o","n","-","f","l","a","m","m","a","b","l","e">>
p_non_flammable_sp == <<"n","o","n"," ","f","l","a","m","m","a","b","l","e">>
p_noncombustible == <<"n","o","n","c","o","m","b","u","s","t","i","b","l","e">>
p_none == <<"n","o","n","e">>
p_nonflammable == <<"n","o","n","f","l","a","m","m","a","b","l","e">>
p_not_applicable == <<"n","o","t"," ","a","p","p","l","i","c","a","b","l","e">>
p_not_available == <<"n","o","t"," ","a","v","a","i","l","a","b","l","e">>
p_not_flammable == <<"n","o","t"," ","f","l","a","m","m","a","b","l","e">>
p_not_known == <<"n","o","t"," ","k","n","o","w","n">>
p_not_measured == <<"n","o","t"," ","m","e","a","s","u","r","e","d">>
p_not_static_sensitive == <<"n","o","t"," ","s","t","a","t","i","c"," ","s","e","n","s","i","t","i","v","e">>
p_pct_vol == <<"%","v","o","l">>
p_precautionary_measures_against == <<"p","r","e","c","a","u","t","i","o","n","a","r","y"," ","m","e","a","s","u","r","e","s"," ","a","g","a","i","n","s","t">>
p_precautions_for_safe_handling == <<"p","r","e","c","a","u","t","i","o","n","s"," ","f","o","r"," ","s","a","f","e"," ","h","a","n","d","l","i","n","g">>
p_product == <<"p","r","o","d","u","c","t">>
p_relative == <<"r","e","l","a","t","i","v","e">>
p_section7 == <<"s","e","c","t","i","o","n","7">>
p_section_7 == <<"s","e","c","t","i","o","n"," ","7">>
p_specific_gravity == <<"s","p","e","c","i","f","i","c"," ","g","r","a","v","i","t","y">>
p_static == <<"s","t","a","t","i","c">>
p_static_buildup == <<"s","t","a","t","i","c"," ","b","u","i","l","d","u","p">>
p_static_charge == <<"s","t","a","t","i","c"," ","c","h","a","r","g","e">>
p_static_discharge == <<"s","t","a","t","i","c"," ","d","i","s","c","h","a","r","g","e">>
p_static_electricity == <<"s","t","a","t","i","c"," ","e","l","e","c","t","r","i","c","i","t","y">>
p_static_hazard == <<"s","t","a","t","i","c"," ","h","a","z","a","r","d">>
p_static_sensitive == <<"s","t","a","t","i","c"," ","s","e","n","s","i","t","i","v","e">>
p_storage == <<"s","t","o","r","a","g","e">>
p_storage_conditions == <<"s","t","o","r","a","g","e"," ","c","o","n","d","i","t","i","o","n","s">>
p_synonyms == <<"s","y","n","o","n","y","m","s">>
p_tlv == <<"t","l","v">>
p_trade_name == <<"t","r","a","d","e"," ","n","a","m","e">>
p_tradename == <<"t","r","a","d","e","n","a","m","e">>
p_uel == <<"u","e","l">>
p_ufl == <<"u","f","l">>
p_upper == <<"u","p","p","e","r">>
p_upper_explosive_limit == <<"u","p","p","e","r"," ","e","x","p","l","o","s","i","v","e"," ","l","i","m","i","t">>
p_upper_flammable_limit == <<"u","p","p","e","r"," ","f","l","a","m","m","a","b","l","e"," ","l","i","m","i","t">>
p_vapor_pressure == <<"v","a","p","o","r"," ","p","r","e","s","s","u","r","e">>
p_vapour_pressure == <<"v","a","p","o","u","r"," ","p","r","e","s","s","u","r","e">>
p_vol_pct == <<"v","o","l","%">>
p_volume_pct == <<"v","o","l","u","m","e","%">>
p_will_not_burn == <<"w","i","l","l"," ","n","o","t"," ","b","u","r","n">>

\* lexemes as the texts of the model and the results spell them
t_0_8 == <<"0",".","8">>
t_0_9 == <<"0",".","9">>
t_12_5_6 == <<"-","1","2",".","5",".","6">>
t_12_5_mg == <<" "," ",":"," "," ","1","2",",","5"," ","m","g">>
t_12_8 == <<"1","2",".","8">>
t_1_1 == <<"1",".","1">>
t_1_2 == <<"1",".","2">>
t_1_234_5 == <<"1",",","2","3","4",",","5">>
t_1_4 == <<"1",".","4">>
t_2_1 == <<"2",".","1">>
t_2_3 == <<"2",".","3">>
t_3 == <<"3">>
t_50 == <<"5","0">>
t_7_6 == <<"7",".","6">>
t_9 == <<"9">>
t_Density == <<"D","e","n","s","i","t","y">>
t_Electrostatic_charge == <<"E","l","e","c","t","r","o","s","t","a","t","i","c"," ","c","h","a","r","g","e">>
t_Flammability_limits == <<"F","l","a","m","m","a","b","i","l","i","t","y"," ","l","i","m","i","t","s">>
t_Flammable_limits == <<"F","l","a","m","m","a","b","l","e"," ","l","i","m","i","t","s">>
t_Flammable_range == <<"F","l","a","m","m","a","b","l","e"," ","r","a","n","g","e">>
t_Ground == <<"G","r","o","u","n","d">>
t_Handling_and_storage == <<"H","a","n","d","l","i","n","g"," ","a","n","d"," ","s","t","o","r","a","g","e">>
t_Keep_cool == <<"K","e","e","p"," ","c","o","o","l">>
t_LEL == <<"L","E","L">>
t_LEL_prefix == <<"L","E","L",":"," ">>
t_No == <<"N","o">>
t_No_data_available == <<"N","o"," ","d","a","t","a"," ","a","v","a","i","l","a","b","l","e">>
t_No_static_hazard == <<"N","o"," ","s","t","a","t","i","c"," ","h","a","z","a","r","d">>
t_Non_flammable == <<"N","o","n","-","f","l","a","m","m","a","b","l","e">>
t_Not_Available == <<"N","o","t"," ","A","v","a","i","l","a","b","l","e">>
t_Not_applicable == <<"N","o","t"," ","a","p","p","l","i","c","a","b","l","e">>
t_Not_measured == <<"N","o","t"," ","m","e","a","s","u","r","e","d">>
t_Precautionary_measures_against == <<"P","r","e","c","a","u","t","i","o","n","a","r","y"," ","m","e","a","s","u","r","e","s"," ","a","g","a","i","n","s","t">>
t_Relative == <<"R","e","l","a","t","i","v","e">>
t_SECTION_7 == <<"S","E","C","T","I","O","N"," ","7">>
t_Solvex == <<"S","o","l","v","e","x">>
t_Specific_gravity == <<"S","p","e","c","i","f","i","c"," ","g","r","a","v","i","t","y">>
t_Static_discharge == <<"S","t","a","t","i","c"," ","d","i","s","c","h","a","r","g","e">>
t_Static_hazard == <<"S","t","a","t","i","c"," ","h","a","z","a","r","d">>
t_Storage == <<"S","t","o","r","a","g","e">>
t_TLV == <<"T","L","V">>
t_Trade_Name == <<"T","r","a","d","e"," ","N","a","m","e">>
t_UEL == <<"U","E","L">>
t_UEL_infix == <<"%",","," ","U","E","L",":"," ">>
t_UEL_prefix == <<"U","E","L",":"," ">>
t_Vapour_pressure == <<"V","a","p","o","u","r"," ","p","r","e","s","s","u","r","e">>
t_Yes == <<"Y","e","s">>
t_and == <<"a","n","d">>
t_and_or_relative_density == <<"a","n","d"," ","/"," ","o","r"," ","r","e","l","a","t","i","v","e"," ","d","e","n","s","i","t","y">>
t_bond == <<"b","o","n","d">>
t_container == <<"c","o","n","t","a","i","n","e","r">>
t_g_cm3 == <<"g","/","c","m","3">>
t_kPa == <<"k","P","a">>
t_ppm == <<"p","p","m">>
t_static_discharge == <<"s","t","a","t","i","c"," ","d","i","s","c","h","a","r","g","e">>

(***************************************************************************)
(* clean_numeric_value, on a value given as its characters.                *)
(***************************************************************************)
DigitSet == {Digits[k] : k \in 1..10}

\* any(char.isdigit() for char in s)
HasDigit(s) == \E k \in 1..Len(s) : s[k] \in DigitSet

\* ['nda', 'n/a', 'not available']
NoDataLiterals == {NDA_LC, NA_LC, p_not_available}

\* re.sub(r'^[:\-\s]+', '', value_str)
RECURSIVE DropPrefix(_)
DropPrefix(s) ==
    IF s # <<>> /\ (Head(s) \in {":", "-"} \/ IsSpace(Head(s)))
    THEN DropPrefix(Tail(s))
    ELSE s

\* the first index from i on whose character is not in S
RECURSIVE RunEnd(_, _, _)
RunEnd(s, i, S) == IF i <= Len(s) /\ s[i] \in S THEN RunEnd(s, i + 1, S) ELSE i

\* re.search(r'([\d,]+[.,]?\d*)', s): <<>>, or <<group(1)>> of the leftmost
\* match: the longest run of digits and commas, one '.' or ',' if it follows,
\* and the digits after it
NumberMatch(s) ==
    LET starts == {i \in 1..Len(s) : s[i] \in DigitSet \cup {","}}
    IN  IF starts = {} THEN <<>>
        ELSE LET i == CHOOSE x \in starts : \A y \in starts : x <= y
                 j == RunEnd(s, i, DigitSet \cup {","})
                 k == IF j <= Len(s) /\ s[j] \in {".", ","} THEN j + 1 ELSE j
                 m == RunEnd(s, k, DigitSet)
             IN  << SubSeq(s, i, m - 1) >>

\* re.sub(r'(\d+),(\d+)$', r'\1.\2', number): a comma between a digit and the
\* digits that end the number becomes a dot
CommaToDot(number) ==
    LET n == Len(number)
        commas == {p \in 2..(n - 1) :
                      /\ number[p] = ","
                      /\ number[p - 1] \in DigitSet
                      /\ \A q \in (p + 1)..n : number[q] \in DigitSet}
    IN  IF commas = {} THEN number
        ELSE [number EXCEPT ![CHOOSE p \in commas : TRUE] = "."]

clean_numeric_value(value_str) ==
    IF value_str = <<>> \/ Lower(value_str) \in NoDataLiterals
    THEN NDA
    ELSE LET number_match == NumberMatch(DropPrefix(Strip(value_str)))
         IN  IF number_match # <<>> THEN CommaToDot(number_match[1]) ELSE NDA

(***************************************************************************)
(* Regular expressions, on a text given as the sequence of its lexemes.    *)
(*                                                                         *)
(* A pattern is [els, groups]: els is the sequence of its elements, each   *)
(* matching lexemes of one class once ("one"), at most once ("opt"), any   *)
(* number of times greedily ("star") or lazily ("lazy"); groups gives, for *)
(* each capturing group, the first and the last element it spans. A        *)
(* literal of the source pattern is the set of the lexemes, in lower case  *)
(* when the search ignores case, in which the texts of the model can spell *)
(* it. The flags of a search are "I" (re.IGNORECASE) and "S" (re.DOTALL).  *)
(***************************************************************************)
\* text with every lexeme in lower case
LowerText(text) == [k \in 1..Len(text) |-> Lower(text[k])]

One(S) == [q |-> "one", t |-> "in", s |-> S]
Opt(S) == [q |-> "opt", t |-> "in", s |-> S]
Star(S) == [q |-> "star", t |-> "in", s |-> S]

\* (\d+(?:\.\d+)?)
Num == [q |-> "one", t |-> "num", s |-> {}]
\* \d{1,3}
Num3 == [q |-> "one", t |-> "num3", s |-> {}]
\* .*? and .*
AnyLazy == [q |-> "lazy", t |-> "dot", s |-> {}]
AnyGreedy == [q |-> "star", t |-> "dot", s |-> {}]
\* [^\n\r]+
LineRest == << [q |-> "one", t |-> "line", s |-> {}], [q |-> "star", t |-> "line", s |-> {}] >>

\* [gkmg/^\s\d.]+
UnitChars == DigitSet \cup {"g", "k", "m", "/", "^", ".", " ", "\n"}
Units == << [q |-> "one", t |-> "unit", s |-> {}], [q |-> "star", t |-> "unit", s |-> {}] >>

\* \s
Spaces == {SPACE, NEWLINE}
\* \s+
Space1 == << One(Spaces), Star(Spaces) >>

\* a lexeme of the form \d+(?:\.\d+)?
IsNumber(tok) ==
    /\ tok # <<>>
    /\ tok[1] \in DigitSet /\ tok[Len(tok)] \in DigitSet
    /\ \A k \in 1..Len(tok) : tok[k] \in DigitSet \cup {"."}
    /\ Cardinality({k \in 1..Len(tok) : tok[k] = "."}) <= 1

\* whether the class of element e holds the lexeme tok
Accepts(e, tok, dotall) ==
    CASE e.t = "in" -> tok \in e.s
      [] e.t = "num" -> IsNumber(tok)
      [] e.t = "num3" -> Len(tok) \in 1..3 /\ \A k \in 1..Len(tok) : tok[k] \in DigitSet
      [] e.t = "line" -> tok # NEWLINE
      [] e.t = "unit" -> \A k \in 1..Len(tok) : tok[k] \in UnitChars
      [] e.t = "dot" -> dotall \/ tok # NEWLINE

\* the value of the one-element set S: LET binds a name to an expression,
\* x \in {e} binds it to the value of e
Only(S) == CHOOSE x \in S : TRUE

\* the greatest member of a non-empty set of naturals
SetMaxOf(S) == CHOOSE x \in S : \A y \in S : y <= x

\* how many lexemes from lexeme i on element p can take at most
RunLen(re, subj, dotall, p, i) ==
    SetMaxOf({n \in 0..(Len(subj) + 1 - i) :
                \A j \in i..(i + n - 1) : Accepts(re.els[p], subj[j], dotall)})

\* the numbers of lexemes element p may take at lexeme i
Takes(re, subj, dotall, p, i) ==
    CASE re.els[p].q = "one" -> {1} \cap (0..RunLen(re, subj, dotall, p, i))
      [] re.els[p].q = "opt" -> {0, 1} \cap (0..RunLen(re, subj, dotall, p, i))
      [] re.els[p].q \in {"star", "lazy"} -> 0..RunLen(re, subj, dotall, p, i)

\* the match of the elements p.. of re that begins at lexeme i of subj, with
\* the backtracking order of re (a lazy element takes as little as lets the
\* rest match, any other as much): <<>> when there is none, else <<b>> where
\* b[k] is the lexeme at which element p + k - 1 begins and the last entry of
\* b is the lexeme after the match
RECURSIVE Match(_, _, _, _, _)
Match(re, subj, dotall, p, i) ==
    IF p > Len(re.els) THEN << <<i>> >>
    ELSE Only({Only({IF hits = {} THEN <<>>
                     ELSE IF re.els[p].q = "lazy"
                     THEN << <<i>> \o ms[SetMinOf(hits)][1] >>
                     ELSE << <<i>> \o ms[SetMaxOf(hits)][1] >> :
                       hits \in {{k \in DOMAIN ms : ms[k] # <<>>}}}) :
                 ms \in {[k \in Takes(re, subj, dotall, p, i) |->
                            Match(re, subj, dotall, p + 1, i + k)]}})

\* the leftmost match among the lexemes of starts
MatchFirst(re, subj, dotall, starts) ==
    Only({Only({IF hits = {} THEN <<>> ELSE ms[SetMinOf(hits)] :
                  hits \in {{i \in starts : ms[i] # <<>>}}}) :
            ms \in {[i \in starts |-> Match(re, subj, dotall, 1, i)]}})

\* re.search(re, text, flags), and the first element of re.findall: the
\* leftmost match (every pattern begins with an element of kind "one"); low is
\* LowerText(text)
re_search(re, flags, text, low) ==
    Only({MatchFirst(re, subj, "S" \in flags,
                     {i \in 1..Len(subj) : Accepts(re.els[1], subj[i], "S" \in flags)}) :
            subj \in {IF "I" \in flags THEN low ELSE text}})

\* the characters of the lexemes a..b of text
FlattenRange(text, a, b) == Flatten(SubSeq(text, a, b), 1)

\* m.group(g)
Group(re, text, m, g) ==
    FlattenRange(text, m[1][re.groups[g][1]], m[1][re.groups[g][2] + 1] - 1)

\* the first pattern of a list, from position p on, that matches: <<>>, or
\* <<its position, its match>>
FirstMatch(patterns, p, flags, text, low) ==
    Only({Only({IF hits = {} THEN <<>> ELSE <<SetMinOf(hits), ms[SetMinOf(hits)]>> :
                  hits \in {{a \in p..Len(patterns) : ms[a] # <<>>}}}) :
            ms \in {[a \in p..Len(patterns) |->
                       re_search(patterns[a], flags, text, low)]}})

\* whether any pattern of a list matches
AnyMatch(patterns, flags, text, low) == FirstMatch(patterns, 1, flags, text, low) # <<>>

\* re.search of an alternation: the alternative that matches leftmost, the
\* earlier one in the alternation when two match at the same lexeme: <<>>, or
\* <<its position, its match>>
AltSearch(alts, flags, text, low) ==
    Only({IF \A a \in 1..Len(alts) : ms[a] = <<>> THEN <<>>
          ELSE Only({<<a, ms[a]>> :
                       a \in {CHOOSE x \in 1..Len(alts) :
                                /\ ms[x] # <<>>
                                /\ \A y \in 1..Len(alts) :
                                      \/ ms[y] = <<>>
                                      \/ ms[x][1][1] < ms[y][1][1]
                                      \/ (ms[x][1][1] = ms[y][1][1] /\ x <= y)}}) :
            ms \in {[a \in 1..Len(alts) |-> re_search(alts[a], flags, text, low)]}})

\* find_between of parse_sds_data (its closure variable text made explicit)
find_between(pattern, default, text, low) ==
    Only({IF matches # <<>>
          THEN Only({IF HasDigit(result) THEN clean_numeric_value(result) ELSE result :
                       result \in {Strip(Group(pattern, text, matches, 1))}})
          ELSE default :
            matches \in {re_search(pattern, {"I"}, text, low)}})

(***************************************************************************)
(* extract_flammable_limits                                                *)
(***************************************************************************)
\* [:\s]
ColonSpace == {COLON, SPACE, NEWLINE}
\* [-–—] (the texts of the model write the hyphen)
Dashes == {DASH}
\* [:\s]*(\d+(?:\.\d+)?)\s*%
NumPct == << Star(ColonSpace), Num, Star(Spaces), One({PERCENT}) >>
\* [:\s]*(\d+(?:\.\d+)?)\s*%?\s*[-–—]\s*(\d+(?:\.\d+)?)\s*%
RangePct == << Star(ColonSpace), Num, Star(Spaces), Opt({PERCENT}), Star(Spaces),
               One(Dashes), Star(Spaces), Num, Star(Spaces), One({PERCENT}) >>
\* (?:vol\s*%|%\s*vol|%|volume\s*%)
VolPct == {p_vol_pct, p_pct_vol, PERCENT, p_volume_pct}
\* (?:Flammable|Explosive)\s+(?:range|limits?)
FlammableContext == {p_flammable_range, p_flammable_limits, p_flammable_limit,
                     p_explosive_range, p_explosive_limits, p_explosive_limit,
                     p_lower_explosive_limit, p_upper_explosive_limit}

flammable_patterns == <<
    \* LEL and UEL on the same line
    [els |-> << One({p_lel}) >> \o NumPct \o << AnyLazy, One({p_uel}) >> \o NumPct,
     groups |-> << <<3, 3>>, <<9, 9>> >>],
    [els |-> << One({p_lower_explosive_limit}) >> \o NumPct
                \o << AnyLazy, One({p_upper_explosive_limit}) >> \o NumPct,
     groups |-> << <<3, 3>>, <<9, 9>> >>],
    [els |-> << One({p_lfl}) >> \o NumPct \o << AnyLazy, One({p_ufl}) >> \o NumPct,
     groups |-> << <<3, 3>>, <<9, 9>> >>],
    \* range
    [els |-> << One({p_lel, p_lower_explosive_limit, p_lfl,
                     p_flammable_limits, p_flammable_limit}) >> \o RangePct,
     groups |-> << <<3, 3>>, <<9, 9>> >>],
    [els |-> << One({p_explosive_limits, p_explosive_limit,
                     p_lower_explosive_limit, p_upper_explosive_limit}) >> \o RangePct,
     groups |-> << <<3, 3>>, <<9, 9>> >>],
    [els |-> << One({p_flammability_limits, p_flammability_limit}) >> \o RangePct,
     groups |-> << <<3, 3>>, <<9, 9>> >>],
    \* in parentheses
    [els |-> << One({LPAREN}), Star(Spaces), Num, Star(Spaces), Opt({PERCENT}),
                Star(Spaces), One(Dashes), Star(Spaces), Num, Star(Spaces),
                Opt({PERCENT}), Star(Spaces), One({RPAREN}) >>,
     groups |-> << <<3, 3>>, <<9, 9>> >>],
    [els |-> << One({LPAREN}), Star(Spaces), One({p_lel}) >> \o NumPct
                \o << AnyLazy, One({p_uel}) >> \o NumPct
                \o << Star(Spaces), One({RPAREN}) >>,
     groups |-> << <<5, 5>>, <<11, 11>> >>],
    \* table, with vol% or volume%
    [els |-> << One({p_lel, p_lower}), Star(ColonSpace), Num, Star(Spaces), One(VolPct),
                AnyLazy,
                One({p_uel, p_upper}), Star(ColonSpace), Num, Star(Spaces), One(VolPct) >>,
     groups |-> << <<3, 3>>, <<9, 9>> >>],
    \* a range in a flammable context
    [els |-> << One(FlammableContext), Star(ColonSpace), Num, Star(Spaces), One(Dashes),
                Star(Spaces), Num, Star(Spaces), One({PERCENT}) >>,
     groups |-> << <<3, 3>>, <<7, 7>> >>],
    \* LEL and UEL on their own
    [els |-> << One({p_lel}) >> \o NumPct, groups |-> << <<3, 3>> >>],
    [els |-> << One({p_uel}) >> \o NumPct, groups |-> << <<3, 3>> >>] >>

lel_patterns == <<
    [els |-> << One({p_lel}) >> \o NumPct, groups |-> << <<3, 3>> >>],
    [els |-> << One({p_lower_explosive_limit}) >> \o NumPct, groups |-> << <<3, 3>> >>],
    [els |-> << One({p_lfl}) >> \o NumPct, groups |-> << <<3, 3>> >>],
    [els |-> << One({p_lower_flammable_limit}) >> \o NumPct, groups |-> << <<3, 3>> >>] >>

uel_patterns == <<
    [els |-> << One({p_uel}) >> \o NumPct, groups |-> << <<3, 3>> >>],
    [els |-> << One({p_upper_explosive_limit}) >> \o NumPct, groups |-> << <<3, 3>> >>],
    [els |-> << One({p_ufl}) >> \o NumPct, groups |-> << <<3, 3>> >>],
    [els |-> << One({p_upper_flammable_limit}) >> \o NumPct, groups |-> << <<3, 3>> >>] >>

\* \s*:?\s*(?:not\s+applicable|n/?a)
NotApplicable == << Star(Spaces), Opt({COLON}), Star(Spaces),
                    One({p_not_applicable, NA_LC, p_na}) >>

non_flammable_patterns == <<
    [els |-> << One({p_not_flammable}) >>, groups |-> <<>>],
    [els |-> << One({p_non_flammable, p_nonflammable, p_non_flammable_sp}) >>, groups |-> <<>>],
    [els |-> << One({p_flammable_limits, p_flammable_limit}) >> \o NotApplicable,
     groups |-> <<>>],
    [els |-> << One({p_explosive_limits, p_explosive_limit,
                     p_lower_explosive_limit, p_upper_explosive_limit}) >> \o NotApplicable,
     groups |-> <<>>],
    [els |-> << One({p_does_not_burn}) >>, groups |-> <<>>],
    [els |-> << One({p_will_not_burn}) >>, groups |-> <<>>],
    [els |-> << One({p_non_combustible, p_noncombustible, p_non_combustible_sp}) >>,
     groups |-> <<>>] >>

NonFlammable == t_Non_flammable

\* f"LEL: {lel_value}%, UEL: {uel_value}%" and its two variants
FormatLimits(lel_value, uel_value) ==
    IF lel_value # <<>> /\ uel_value # <<>>
    THEN t_LEL_prefix \o lel_value[1] \o t_UEL_infix \o uel_value[1] \o PERCENT
    ELSE IF lel_value # <<>> THEN t_LEL_prefix \o lel_value[1] \o PERCENT
    ELSE t_UEL_prefix \o uel_value[1] \o PERCENT

\* the values lel_value and uel_value hold after both loops, each <<>> (None)
\* or <<the number captured>>; dual is the list of the patterns tried for both
FoundLimits(text, low, dual) ==
    Only({IF both # <<>> /\ Len(dual[both[1]].groups) = 2
          THEN [lel |-> << Strip(Group(dual[both[1]], text, both[2], 1)) >>,
                uel |-> << Strip(Group(dual[both[1]], text, both[2], 2)) >>]
          ELSE [lel |-> Only({IF lel # <<>>
                              THEN << Strip(Group(lel_patterns[lel[1]], text, lel[2], 1)) >>
                              ELSE <<>> :
                                lel \in {FirstMatch(lel_patterns, 1, {"I"}, text, low)}}),
                uel |-> Only({IF uel # <<>>
                              THEN << Strip(Group(uel_patterns[uel[1]], text, uel[2], 1)) >>
                              ELSE <<>> :
                                uel \in {FirstMatch(uel_patterns, 1, {"I"}, text, low)}})] :
            both \in {FirstMatch(dual, 1, {"I", "M", "S"}, text, low)}})

\* extract_flammable_limits with the patterns that are tried for both values
\* given as dual
FlammableLimits(text, dual) ==
    Only({Only({IF found.lel # <<>> \/ found.uel # <<>>
                THEN FormatLimits(found.lel, found.uel)
                ELSE IF AnyMatch(non_flammable_patterns, {"I"}, text, low)
                THEN NonFlammable
                ELSE NDA :
                  found \in {FoundLimits(text, low, dual)}}) :
            low \in {LowerText(text)}})

\* for pattern in flammable_patterns[:5]
extract_flammable_limits(text) == FlammableLimits(text, SubSeq(flammable_patterns, 1, 5))

(***************************************************************************)
(* extract_static_hazard                                                   *)
(***************************************************************************)
Yes == t_Yes
No == t_No

\* the lexemes in which "static" occurs
StaticWords == {p_static, p_static_discharge, p_electrostatic_discharge,
                p_static_electricity, p_electrostatic_charge, p_static_charge,
                p_anti_static, p_antistatic, p_static_sensitive,
                p_electrostatic_ignition, p_static_buildup, p_static_hazard,
                p_no_static_hazard, p_not_static_sensitive, p_no_electrostatic_hazard}

static_patterns == <<
    [els |-> << One({p_static_discharge, p_electrostatic_discharge}) >>, groups |-> <<>>],
    [els |-> << One({p_electrostatic_discharge}) >>, groups |-> <<>>],
    [els |-> << One({p_static_electricity}) >>, groups |-> <<>>],
    [els |-> << One({p_electrostatic_charge}) >>, groups |-> <<>>],
    [els |-> << One({p_static_charge, p_electrostatic_charge}) >>, groups |-> <<>>],
    [els |-> << One({p_precautionary_measures_against}) >> \o Space1
                \o << One({p_static_discharge}) >>,
     groups |-> <<>>],
    [els |-> << One({p_measures_to_prevent}), AnyGreedy, One(StaticWords) >>,
     groups |-> <<>>],
    [els |-> << One({p_ground, p_grounding}), AnyGreedy, One({p_bond, p_bonding}),
                AnyGreedy, One({p_container, p_containers}) >>,
     groups |-> <<>>],
    [els |-> << One({p_grounding}), AnyGreedy, One({p_bonding}) >>, groups |-> <<>>],
    [els |-> << One({p_anti_static, p_antistatic, p_anti_static_sp}) >>, groups |-> <<>>],
    [els |-> << One({p_static_sensitive, p_not_static_sensitive}) >>, groups |-> <<>>],
    [els |-> << One({p_electrostatic_ignition}) >>, groups |-> <<>>],
    [els |-> << One({p_static_buildup}) >>, groups |-> <<>>] >>

\* the lexemes that begin with "no"
NoWords == {p_no, p_none, p_not_applicable, p_not_known, p_no_static_hazard,
            p_not_static_sensitive, p_no_electrostatic_hazard, p_non_flammable,
            p_not_flammable, p_not_measured, p_no_data_available, p_not_available}

no_static_patterns == <<
    [els |-> << One({p_no_static_hazard}) >>, groups |-> <<>>],
    [els |-> << One({p_static_hazard, p_no_static_hazard, p_no_electrostatic_hazard}),
                Star(Spaces), Opt({COLON}), Star(Spaces), One(NoWords) >>,
     groups |-> <<>>],
    [els |-> << One({p_not_static_sensitive}) >>, groups |-> <<>>],
    [els |-> << One({p_no_electrostatic_hazard}) >>, groups |-> <<>>],
    [els |-> << One({p_static_discharge, p_electrostatic_discharge}),
                Star(Spaces), Opt({COLON}), Star(Spaces), One({p_not_applicable}) >>,
     groups |-> <<>>],
    [els |-> << One({p_static_discharge, p_electrostatic_discharge}),
                Star(Spaces), Opt({COLON}), Star(Spaces), One({NA_LC, p_na}) >>,
     groups |-> <<>>] >>

handling_sections == <<
    [els |-> << One({p_section_7, p_section7}), AnyLazy,
                One({p_handling, p_storage, p_handling_and_storage,
                     p_precautions_for_safe_handling, p_storage_conditions}) >>,
     groups |-> <<>>],
    [els |-> << One({p_handling_and_storage}) >>, groups |-> <<>>],
    [els |-> << One({p_precautions_for_safe_handling}) >>, groups |-> <<>>],
    [els |-> << One({p_storage_conditions}) >>, groups |-> <<>>] >>

StaticMutYesFirst(text) ==
    Only({IF AnyMatch(static_patterns, {"I"}, text, low) THEN Yes
          ELSE IF AnyMatch(no_static_patterns, {"I"}, text, low) THEN No
          ELSE IF AnyMatch(handling_sections, {"I"}, text, low) THEN No
          ELSE NDA :
            low \in {LowerText(text)}})

extract_static_hazard(text) ==
    Only({IF AnyMatch(no_static_patterns, {"I"}, text, low) THEN No
          ELSE IF AnyMatch(static_patterns, {"I"}, text, low) THEN Yes
          ELSE IF AnyMatch(handling_sections, {"I"}, text, low) THEN No
          ELSE NDA :
            low \in {LowerText(text)}})

(***************************************************************************)
(* parse_sds_data: vapour pressure, trade name, density, threshold limit   *)
(* value.                                                                  *)
(***************************************************************************)
\* \s*[:\-]?\s*(.*)
RestOfLine == << Star(Spaces), Opt({COLON, DASH}), Star(Spaces), AnyGreedy >>

\* (?:\s*\(.*?\))?
InParens == << Star(Spaces), One({LPAREN}), AnyLazy, One({RPAREN}) >>
\* (?:\s+at\s+\d{1,3}\s*(?:degree)?\s*[°]?[Cc])? (the texts of the model write
\* no degree sign)
AtCelsius == Space1 \o << One({p_at}) >> \o Space1
             \o << Num3, Star(Spaces), Opt({p_degree}), Star(Spaces), One({p_c}) >>

VapourLabel == << One({p_vapour_pressure, p_vapor_pressure}) >>

\* vp_pattern, its two optional groups written out in the order in which re
\* tries them: both, the first, the second, neither
vp_pattern == <<
    [els |-> VapourLabel \o InParens \o AtCelsius \o RestOfLine,
     groups |-> << <<20, 20>> >>],
    [els |-> VapourLabel \o InParens \o RestOfLine, groups |-> << <<9, 9>> >>],
    [els |-> VapourLabel \o AtCelsius \o RestOfLine, groups |-> << <<16, 16>> >>],
    [els |-> VapourLabel \o RestOfLine, groups |-> << <<5, 5>> >>] >>

VapourPressure(text, low) ==
    Only({IF match # <<>> THEN Strip(Group(vp_pattern[match[1]], text, match[2], 1)) ELSE NDA :
            match \in {AltSearch(vp_pattern, {"I"}, text, low)}})

\* (?:Product\s*/\s*)?
ProductSlash == << One({p_product}), Star(Spaces), One({SLASH}), Star(Spaces) >>
\* Trade\s*Name
TradeLabel == << One({p_trade_name, p_tradename}) >>
\* (?:\s*&\s*Synonyms)?
AndSynonyms == << Star(Spaces), One({AMPERSAND}), Star(Spaces), One({p_synonyms}) >>
\* \s*:?\s*([^\n\r]+)
ColonLine == << Star(Spaces), Opt({COLON}), Star(Spaces) >> \o LineRest

\* trade_pattern, its optional groups written out likewise
trade_pattern == <<
    [els |-> ProductSlash \o TradeLabel \o AndSynonyms \o ColonLine,
     groups |-> << <<13, 14>> >>],
    [els |-> ProductSlash \o TradeLabel \o ColonLine, groups |-> << <<9, 10>> >>],
    [els |-> TradeLabel \o AndSynonyms \o ColonLine, groups |-> << <<9, 10>> >>],
    [els |-> TradeLabel \o ColonLine, groups |-> << <<5, 6>> >>] >>

TradeName(text, low) ==
    Only({IF m # <<>> THEN Strip(Group(trade_pattern[m[1]], text, m[2], 1)) ELSE NDA :
            m \in {AltSearch(trade_pattern, {"I"}, text, low)}})

invalid_values == {p_not_measured, p_no_data_available, t_Not_applicable,
                   t_No_data_available, p_not_applicable, p_not_available}

\* Density\s+and\s+/\s+or\s+relative\s+density\s*[:\-]?\s*(.*)
density_and_or == [els |-> << One({p_density}) >> \o Space1
                           \o << One({p_and_or_relative_density}) >> \o RestOfLine,
                   groups |-> << <<8, 8>> >>]
\* Relative\s+Density\s*[:\-]?\s*(.*)
relative_density == [els |-> << One({t_Relative}) >> \o Space1
                             \o << One({t_Density}) >> \o RestOfLine,
                     groups |-> << <<8, 8>> >>]
\* Density\s*[:\-]?\s*(.*)
bare_density == [els |-> << One({t_Density}) >> \o RestOfLine,
                 groups |-> << <<5, 5>> >>]

\* \s+at\s+\d{1,3}\s*(?:°|degree)?\s*[CFK]
AtDegrees == Space1 \o << One({p_at}) >> \o Space1
             \o << Num3, Star(Spaces), Opt({p_degree}), Star(Spaces),
                   One({p_c, p_f, p_k}) >>
\* \s*\(.*?=\s*1\)
EqualsOne == << Star(Spaces), One({LPAREN}), AnyLazy, One({EQUALS}), Star(Spaces),
                One({p_1}), One({RPAREN}) >>
\* fallback_pattern: its alternatives in order, each followed by
\* \s*[:\-]?\s*(.*); group 1 is the label, group 2 the value
fallback_pattern == <<
    [els |-> << One({p_specific_gravity}) >> \o EqualsOne \o RestOfLine,
     groups |-> << <<1, 8>>, <<12, 12>> >>],
    [els |-> << One({p_relative}) >> \o Space1 \o << One({p_density}) >>
                \o EqualsOne \o RestOfLine,
     groups |-> << <<1, 11>>, <<15, 15>> >>],
    [els |-> << One({p_specific_gravity}) >> \o Space1 \o << One({p_density}) >>
                \o RestOfLine,
     groups |-> << <<1, 4>>, <<8, 8>> >>],
    [els |-> << One({p_specific_gravity}) >> \o RestOfLine,
     groups |-> << <<1, 1>>, <<5, 5>> >>],
    [els |-> << One({p_specific_gravity}), Star(Spaces), One({SLASH}), Star(Spaces),
                One({p_density}) >> \o RestOfLine,
     groups |-> << <<1, 5>>, <<9, 9>> >>],
    [els |-> << One({p_density}), Star(Spaces), One({SLASH}), Star(Spaces),
                One({p_specific_gravity}) >> \o RestOfLine,
     groups |-> << <<1, 5>>, <<9, 9>> >>],
    [els |-> << One({p_density}) >> \o AtDegrees \o RestOfLine,
     groups |-> << <<1, 11>>, <<15, 15>> >>],
    [els |-> << One({p_density}), Star(Spaces), One({AT_SIGN}), Star(Spaces), Num3,
                Star(Spaces), One({p_c, p_f, p_k}) >> \o RestOfLine,
     groups |-> << <<1, 7>>, <<11, 11>> >>],
    [els |-> << One({p_density}) >> \o AtDegrees
                \o << Star(Spaces), One({COMMA}), Star(Spaces) >> \o Units
                \o RestOfLine,
     groups |-> << <<1, 16>>, <<20, 20>> >>],
    [els |-> << One({p_specific_gravity}) >> \o AtDegrees \o RestOfLine,
     groups |-> << <<1, 11>>, <<15, 15>> >>],
    [els |-> << One({p_relative}) >> \o Space1 \o << One({p_density}) >>
                \o AtDegrees \o RestOfLine,
     groups |-> << <<1, 14>>, <<18, 18>> >>] >>

\* the value a match gives to density: match.group(g).strip() when it is not,
\* in lower case, in invalid_values; density otherwise
DensityValue(density, value) ==
    IF Lower(value) \notin invalid_values THEN value ELSE density

\* one step of the density code
DensityStep(density, pattern, flags, g, text, low) ==
    Only({IF match # <<>>
          THEN Only({DensityValue(density, value) :
                       value \in {Strip(Group(pattern, text, match, g))}})
          ELSE density :
            match \in {re_search(pattern, flags, text, low)}})

DensityFallback(density, text, low) ==
    Only({IF match # <<>>
          THEN Only({DensityValue(density, value) :
                       value \in {Strip(Group(fallback_pattern[match[1]], text, match[2], 2))}})
          ELSE density :
            match \in {AltSearch(fallback_pattern, {"I"}, text, low)}})

\* density: the second step is not guarded by density == "NDA"
Density(text, low) ==
    Only({Only({IF d2 = NDA
                THEN Only({IF d3 = NDA THEN DensityFallback(d3, text, low) ELSE d3 :
                             d3 \in {DensityStep(d2, bare_density, {}, 1, text, low)}})
                ELSE d2 :
                  d2 \in {DensityStep(d1, relative_density, {}, 1, text, low)}}) :
            d1 \in {DensityStep(NDA, density_and_or, {"I"}, 1, text, low)}})

\* TLV\s*:?\s*([^\n\r]+)
tlv_pattern == [els |-> << One({p_tlv}) >> \o ColonLine, groups |-> << <<5, 6>> >>]

\* the record of one document; the texts of the model hold no label of the
\* extractors of the columns left out here, which return their default "NDA"
parse_sds_data(text, source_filename) ==
    Only({[c \in ColumnSet |->
             CASE c = "Description" -> SplitExt(source_filename)
               [] c = "CAS Number" -> extract_cas_number(text)
               [] c = "Trade Name" -> TradeName(text, low)
               [] c = "Physical state" -> PhysicalState(text)
               [] c = "Static Hazard" -> extract_static_hazard(text)
               [] c = "Vapour Pressure" -> VapourPressure(text, low)
               [] c = "Flammable Limits by Volume (LEL, UEL)" -> extract_flammable_limits(text)
               [] c = "Density" -> Density(text, low)
               [] c = "Threshold Limit Value (ppm)" -> find_between(tlv_pattern, NDA, text, low)
               [] c = "Source of Information" -> MSDS
               [] OTHER -> NDA] :
            low \in {LowerText(text)}})

\* text.strip() is empty
NoText(text) == \A k \in 1..Len(text) : Strip(text[k]) = <<>>

(***************************************************************************)
(* upload_files: the loop over the saved PDF files.                        *)
(*                                                                         *)
(* A document is [filename, text, fault]: the basename of its path, the    *)
(* text extract_pdf_text returns for it (empty when every extraction       *)
(* method failed), and whether processing it raises. extract_pdf_text      *)
(* catches the exceptions of both of its methods, so a document with a     *)
(* text raises inside parse_sds_data, which has no handler of its own.     *)
(***************************************************************************)
\* a skipped_files entry f"{filename} ({reason})"
Skipped(filename, reason) == [file |-> filename, reason |-> reason]

\* the body of "for pdf_path in pdf_paths" on acc = [all_data,
\* processed_files, skipped_files]
ProcessMutDropSkipped(acc, doc) ==
    IF doc.fault \/ NoText(doc.text)
    THEN acc
    ELSE [acc EXCEPT !.all_data = Append(@, parse_sds_data(doc.text, doc.filename)),
                     !.processed_files = @ + 1]

ProcessPdf(acc, doc) ==
    IF doc.fault
    THEN [acc EXCEPT !.skipped_files = Append(@, Skipped(doc.filename, "processing error"))]
    ELSE IF NoText(doc.text)
    THEN [acc EXCEPT !.skipped_files = Append(@, Skipped(doc.filename, "no text extracted"))]
    ELSE [acc EXCEPT !.all_data = Append(@, parse_sds_data(doc.text, doc.filename)),
                     !.processed_files = @ + 1]

\* the loop over pdf_paths, from document k on
RECURSIVE ProcessAll(_, _, _)
ProcessAll(acc, docs, k) ==
    IF k > Len(docs) THEN acc ELSE ProcessAll(ProcessPdf(acc, docs[k]), docs, k + 1)

(***************************************************************************)
(* upload_files: the dataset written.                                      *)
(***************************************************************************)
\* new_data_df = pd.DataFrame(processed_data), every column of COLUMNS
\* ensured, reordered to COLUMNS
NewDataFrame(processed_data) ==
    [columns |-> COLUMNS,
     rows |-> [k \in 1..Len(processed_data) |->
                 [c \in ColumnSet |->
                     IF c \in DOMAIN processed_data[k] THEN processed_data[k][c] ELSE NDA]]]

\* existing_df with the missing columns of COLUMNS added as "NDA" and
\* reindexed to COLUMNS
Reindex(existing_df) ==
    [columns |-> COLUMNS,
     rows |-> [k \in 1..Len(existing_df.rows) |->
                 [c \in ColumnSet |->
                     IF HasColumn(existing_df, c) THEN existing_df.rows[k][c] ELSE NDA]]]

\* pd.concat([existing_df, new_entries], ignore_index=True), or existing_df
\* itself when there is no new entry
CombineMutNewFirst(existing_df, new_entries) ==
    [columns |-> COLUMNS, rows |-> new_entries \o existing_df.rows]

Combine(existing_df, new_entries) ==
    IF Len(new_entries) > 0
    THEN [columns |-> COLUMNS, rows |-> existing_df.rows \o new_entries]
    ELSE existing_df

\* the except branch of the read: combined_df = new_data_df
FallbackMutEmpty(new_data_df) == [columns |-> COLUMNS, rows |-> <<>>]

Fallback(new_data_df) == new_data_df

\* [combined_df, new_entries] of a batch whose records are all_data
Consolidate(all_data, merge_duplicates, duplicate_check, excel) ==
    LET processed_data == merge_by_cas_number_optional(all_data, merge_duplicates)
        new_data_df == NewDataFrame(processed_data)
        existing_df == Reindex(excel.df)
        checked == check_for_duplicates(existing_df, new_data_df.rows, duplicate_check)
    IN  IF ~excel.readable \/ checked.raised
        THEN [combined_df |-> Fallback(new_data_df),
              new_entries |-> Fallback(new_data_df).rows,
              processed_data |-> processed_data]
        ELSE [combined_df |-> Combine(existing_df, checked.df),
              new_entries |-> checked.df,
              processed_data |-> processed_data]

(***************************************************************************)
(* State.                                                                  *)
(***************************************************************************)
VARIABLES
    \* a call of merge_by_cas_number_optional
    mg_pc,          \* "idle", "call", "loop", "done"
    mg_rows,        \* rows
    mg_flag,        \* merge_duplicates
    mg_next,        \* index of the row the for loop takes next
    merged,         \* the dict merged, in insertion order
    mg_result,      \* the list returned
    \* a call of check_for_duplicates
    dd_pc,          \* "idle", "call", "done"
    dd_existing,    \* existing_df
    dd_new,         \* new_data_df
    dd_mode,        \* duplicate_check_mode
    dd_result,      \* what the call returned
    \* a request to /api/upload, from the point where its files are saved
    pc,             \* "idle", "loop", "consolidate", "done"
    pdf_paths,      \* the documents saved, in upload order
    excel,          \* [readable, df]: whether pd.read_excel succeeds, and what it reads
    merge_duplicates,
    duplicate_check,
    next_pdf,       \* position of the for loop in pdf_paths
    acc,            \* [all_data, processed_files, skipped_files]
    out_file,       \* /tmp/extracted_msds.xlsx: <<>> while absent, else <<the frame written>>
    response_data,  \* the response returned
    \* a second request over the documents of the first, with its dataset
    rs_round,       \* 0 outside SpecResubmit, else the number of the operation under way
    rs_first,       \* <<>>, or <<the dataset the first operation wrote>>
    \* two requests to /api/upload served at once, each followed by its download
    ses,            \* per request: its inputs, its position, its dataset, what it was served
    \* a call of an extractor
    ex_pc,          \* "idle", "call", "return"
    ex_fn,          \* the function called
    ex_arg,         \* its argument
    ex_name,        \* source_filename
    ex_result       \* what the call returned

mergeVars == <<mg_pc, mg_rows, mg_flag, mg_next, merged, mg_result>>
dedupVars == <<dd_pc, dd_existing, dd_new, dd_mode, dd_result>>
uploadVars == <<pc, pdf_paths, excel, merge_duplicates, duplicate_check, next_pdf, acc,
                out_file, response_data>>
resubmitVars == <<rs_round, rs_first>>
sessionVars == <<ses>>
extractVars == <<ex_pc, ex_fn, ex_arg, ex_name, ex_result>>
vars == <<mergeVars, dedupVars, uploadVars, resubmitVars, sessionVars, extractVars>>

MergeIdle ==
    /\ mg_pc = "idle" /\ mg_rows = <<>> /\ mg_flag = FALSE
    /\ mg_next = 1 /\ merged = <<>> /\ mg_result = <<>>

DedupIdle ==
    /\ dd_pc = "idle" /\ dd_existing = [columns |-> COLUMNS, rows |-> <<>>]
    /\ dd_new = <<>> /\ dd_mode = "none"
    /\ dd_result = [raised |-> FALSE, df |-> <<>>]

EmptyAcc == [all_data |-> <<>>, processed_files |-> 0, skipped_files |-> <<>>]

UploadIdle ==
    /\ pc = "idle" /\ pdf_paths = <<>>
    /\ excel = [readable |-> FALSE, df |-> [columns |-> <<>>, rows |-> <<>>]]
    /\ merge_duplicates = FALSE /\ duplicate_check = "none"
    /\ next_pdf = 1 /\ acc = EmptyAcc /\ out_file = <<>>
    /\ response_data = [status |-> 0]

ResubmitIdle == rs_round = 0 /\ rs_first = <<>>

SessionsIdle == ses = <<>>

ExtractIdle ==
    /\ ex_pc = "idle" /\ ex_fn = "" /\ ex_arg = <<>> /\ ex_name = <<>> /\ ex_result = <<>>

(***************************************************************************)
(* SpecMerge: merge_by_cas_number_optional called on a batch of rows.      *)
(***************************************************************************)
InitMerge ==
    /\ mg_pc = "call"
    /\ mg_rows \in SeqsUpTo(RowPool, MaxRows)
    /\ mg_flag \in BOOLEAN
    /\ mg_next = 1 /\ merged = <<>> /\ mg_result = <<>>
    /\ DedupIdle /\ UploadIdle /\ ResubmitIdle /\ SessionsIdle /\ ExtractIdle

\* if not rows: return []
MergeReturnEmpty ==
    /\ mg_pc = "call" /\ mg_rows = <<>>
    /\ mg_result' = <<>> /\ mg_pc' = "done"
    /\ UNCHANGED <<mg_rows, mg_flag, mg_next, merged, dedupVars, uploadVars,
                   resubmitVars, sessionVars, extractVars>>

\* if not merge_duplicates: return rows
MergeReturnRows ==
    /\ mg_pc = "call" /\ mg_rows # <<>> /\ ~mg_flag
    /\ mg_result' = mg_rows /\ mg_pc' = "done"
    /\ UNCHANGED <<mg_rows, mg_flag, mg_next, merged, dedupVars, uploadVars,
                   resubmitVars, sessionVars, extractVars>>

\* merged = {}
MergeBegin ==
    /\ mg_pc = "call" /\ mg_rows # <<>> /\ mg_flag
    /\ merged' = <<>> /\ mg_next' = 1 /\ mg_pc' = "loop"
    /\ UNCHANGED <<mg_rows, mg_flag, mg_result, dedupVars, uploadVars,
                   resubmitVars, sessionVars, extractVars>>

\* one iteration of for row in rows
MergeLoop ==
    /\ mg_pc = "loop" /\ mg_next <= Len(mg_rows)
    /\ merged' = MergeRow(merged, mg_rows[mg_next])
    /\ mg_next' = mg_next + 1
    /\ UNCHANGED <<mg_pc, mg_rows, mg_flag, mg_result, dedupVars, uploadVars,
                   resubmitVars, sessionVars, extractVars>>

\* return list(merged.values())
MergeReturn ==
    /\ mg_pc = "loop" /\ mg_next > Len(mg_rows)
    /\ mg_result' = DictValues(merged) /\ mg_pc' = "done"
    /\ UNCHANGED <<mg_rows, mg_flag, mg_next, merged, dedupVars, uploadVars,
                   resubmitVars, sessionVars, extractVars>>

NextMerge ==
    \/ MergeReturnEmpty
    \/ MergeReturnRows
    \/ MergeBegin
    \/ MergeLoop
    \/ MergeReturn

SpecMerge == InitMerge /\ [][NextMerge]_vars

(***************************************************************************)
(* SpecDedup: check_for_duplicates called on an existing dataset that has  *)
(* the schema's columns (upload_files reindexes it first) and a new batch. *)
(***************************************************************************)
\* a row read from the spreadsheet: cells are text or NaN
ExistingRowPool == {
    MkRow(DescA, CAS_A, Liquid),
    MkRow(DescA_UC, NDA, NDA),
    MkRow(NaN, CAS_B, NaN),
    MkRow(DescC, NA_LC, NDA),
    MkRow(DescB, SPACE, NDA) }

DedupNewPool == {
    MkRow(DescA, CAS_A, NDA),
    MkRow(DescA_UC, CAS_B, Liquid),
    MkRow(DescB, CAS_A_PAD, NDA),
    MkRow(DescC, NDA, NDA),
    MkRow(<<"d">>, NA_UC, Liquid),
    MkRow(<<"d">>, EMPTY, NDA),
    MkRow(<<"d">>, <<"1","1","-","2","2","-","3">>, NDA) }

Modes == {"none", "cas", "description", "both"}

InitDedup ==
    /\ dd_pc = "call"
    /\ dd_existing \in {[columns |-> COLUMNS, rows |-> r] :
                            r \in SeqsUpTo(ExistingRowPool, MaxExisting)}
    /\ dd_new \in SeqsUpTo(DedupNewPool, MaxNew)
    /\ dd_mode \in Modes
    /\ dd_result = [raised |-> FALSE, df |-> <<>>]
    /\ MergeIdle /\ UploadIdle /\ ResubmitIdle /\ SessionsIdle /\ ExtractIdle

CheckForDuplicates ==
    /\ dd_pc = "call"
    /\ dd_result' = check_for_duplicates(dd_existing, dd_new, dd_mode)
    /\ dd_pc' = "done"
    /\ UNCHANGED <<dd_existing, dd_new, dd_mode, mergeVars, uploadVars,
                   resubmitVars, sessionVars, extractVars>>

NextDedup == CheckForDuplicates

SpecDedup == InitDedup /\ [][NextDedup]_vars


(***************************************************************************)
(* Spec: one request to /api/upload, from the point where its files are    *)
(* saved (the saved PDF files, the spreadsheet and the two options are its *)
(* inputs). The documents of a request are taken to be different files.    *)
(***************************************************************************)
T_LABELLED == <<L_CAS_NO, SPACE, CAS_A, NEWLINE, L_PHYS, SPACE, Liquid, NEWLINE>>
T_BARE == <<CAS_B, NEWLINE, L_CAS_HASH, CAS_A>>
T_BLANK == <<SPACE, NEWLINE>>
T_NO_CAS == <<L_PHYS, NEWLINE, NA_LC>>

PDF == <<".","p","d","f">>

DocPool == {
    [filename |-> DescA \o PDF, text |-> T_LABELLED, fault |-> FALSE],
    [filename |-> DescB \o PDF, text |-> T_BARE, fault |-> FALSE],
    [filename |-> DescC \o PDF, text |-> T_BLANK, fault |-> FALSE],
    [filename |-> <<"d",".","v","2">> \o PDF, text |-> T_NO_CAS, fault |-> FALSE],
    [filename |-> <<"e">> \o PDF, text |-> T_LABELLED, fault |-> TRUE] }

\* spreadsheets: one with the schema's columns, one (of two rows at most)
\* with a column missing from the schema, columns of the schema missing and
\* another column order
NarrowColumns == <<"CAS Number", "Notes", "Description">>

NarrowRow(desc, cas) ==
    [c \in {"CAS Number", "Notes", "Description"} |->
        CASE c = "Description" -> desc
          [] c = "CAS Number" -> cas
          [] OTHER -> NaN]

UploadRowPool == {
    MkRow(DescA_UC, CAS_B, Liquid),
    MkRow(NaN, CAS_A_PAD, NaN) }

NarrowRowPool == { NarrowRow(DescB, NaN), NarrowRow(<<"d",".","v","2">>, CAS_A) }

ExcelPool ==
    {[readable |-> FALSE, df |-> [columns |-> <<>>, rows |-> <<>>]]}
    \cup {[readable |-> TRUE, df |-> [columns |-> COLUMNS, rows |-> r]] :
            r \in SeqsUpTo(UploadRowPool, MaxExisting)}
    \cup {[readable |-> TRUE, df |-> [columns |-> NarrowColumns, rows |-> r]] :
            r \in SeqsUpTo(NarrowRowPool, 2)}

Init ==
    /\ pc = "loop"
    /\ pdf_paths \in DistinctSeqsUpTo(DocPool, MaxPdfs) \ {<<>>}
    /\ excel \in ExcelPool
    /\ merge_duplicates \in BOOLEAN
    /\ duplicate_check \in Modes
    /\ next_pdf = 1
    /\ acc = EmptyAcc
    /\ out_file = <<>>
    /\ response_data = [status |-> 0]
    /\ MergeIdle /\ DedupIdle /\ ResubmitIdle /\ SessionsIdle /\ ExtractIdle

\* the document the loop takes next
NextDoc == pdf_paths[next_pdf]

\* one iteration of the loop: the document yields a record
ProcessDocument ==
    /\ pc = "loop"
    /\ next_pdf <= Len(pdf_paths)
    /\ ~NextDoc.fault /\ ~NoText(NextDoc.text)
    /\ acc' = ProcessPdf(acc, NextDoc)
    /\ next_pdf' = next_pdf + 1
    /\ UNCHANGED <<pc, pdf_paths, excel, merge_duplicates, duplicate_check,
                   out_file, response_data, mergeVars, dedupVars,
                   resubmitVars, sessionVars, extractVars>>

\* one iteration of the loop: no text was extracted, or processing raised
SkipDocument ==
    /\ pc = "loop"
    /\ next_pdf <= Len(pdf_paths)
    /\ NextDoc.fault \/ NoText(NextDoc.text)
    /\ acc' = ProcessPdf(acc, NextDoc)
    /\ next_pdf' = next_pdf + 1
    /\ UNCHANGED <<pc, pdf_paths, excel, merge_duplicates, duplicate_check,
                   out_file, response_data, mergeVars, dedupVars,
                   resubmitVars, sessionVars, extractVars>>

\* the loop is over
EndLoop ==
    /\ pc = "loop"
    /\ next_pdf > Len(pdf_paths)
    /\ pc' = "consolidate"
    /\ UNCHANGED <<pdf_paths, excel, merge_duplicates, duplicate_check, next_pdf, acc,
                   out_file, response_data, mergeVars, dedupVars,
                   resubmitVars, sessionVars, extractVars>>

\* if not all_data: return the error, 400
RejectMutEmptyDataset ==
    /\ pc = "consolidate" /\ acc.all_data = <<>>
    /\ out_file' = << [columns |-> COLUMNS, rows |-> <<>>] >>
    /\ response_data' =
          [status |-> 200,
           processedFiles |-> 0,
           totalFiles |-> Len(pdf_paths),
           newEntriesAdded |-> 0,
           totalEntriesInOutput |-> 0,
           skippedFiles |-> acc.skipped_files]
    /\ pc' = "done"
    /\ UNCHANGED <<pdf_paths, excel, merge_duplicates, duplicate_check, next_pdf, acc,
                   mergeVars, dedupVars,
                   resubmitVars, sessionVars, extractVars>>

RejectNoData ==
    /\ pc = "consolidate" /\ acc.all_data = <<>>
    /\ response_data' = [status |-> 400]
    /\ pc' = "done"
    /\ UNCHANGED <<pdf_paths, excel, merge_duplicates, duplicate_check, next_pdf, acc,
                   out_file, mergeVars, dedupVars,
                   resubmitVars, sessionVars, extractVars>>

\* merge, read the spreadsheet, filter, combine, write the file, respond
WriteDataset ==
    /\ pc = "consolidate" /\ acc.all_data # <<>>
    /\ LET c == Consolidate(acc.all_data, merge_duplicates, duplicate_check, excel)
       IN  /\ out_file' = <<c.combined_df>>
           /\ response_data' =
                [status |-> 200,
                 processedFiles |-> acc.processed_files,
                 totalFiles |-> Len(pdf_paths),
                 newEntriesAdded |-> Len(c.new_entries),
                 totalEntriesInOutput |-> Len(c.combined_df.rows),
                 skippedFiles |-> acc.skipped_files]
    /\ pc' = "done"
    /\ UNCHANGED <<pdf_paths, excel, merge_duplicates, duplicate_check, next_pdf, acc,
                   mergeVars, dedupVars,
                   resubmitVars, sessionVars, extractVars>>

Next ==
    \/ ProcessDocument
    \/ SkipDocument
    \/ EndLoop
    \/ RejectNoData
    \/ WriteDataset

Spec == Init /\ [][Next]_vars

(***************************************************************************)
(* SpecResubmit: a request to /api/upload, then a second request over the  *)
(* same documents with the same options whose spreadsheet is the dataset   *)
(* the first one wrote.                                                    *)
(***************************************************************************)
\* the strings pd.read_excel reads as missing (its default na_values, with
\* keep_default_na left True)
NaValues == {
    <<>>,
    <<"#","N","/","A">>,
    <<"#","N","/","A"," ","N","/","A">>,
    <<"#","N","A">>,
    <<"-","1",".","#","I","N","D">>,
    <<"-","1",".","#","Q","N","A","N">>,
    <<"-","N","a","N">>,
    <<"-","n","a","n">>,
    <<"1",".","#","I","N","D">>,
    <<"1",".","#","Q","N","A","N">>,
    <<"<","N","A",">">>,
    <<"N","/","A">>,
    <<"N","A">>,
    <<"N","U","L","L">>,
    <<"N","a","N">>,
    <<"N","o","n","e">>,
    <<"n","/","a">>,
    <<"n","a","n">>,
    <<"n","u","l","l">> }

\* pd.read_excel(excel_path) of a file written by to_excel: a missing value
\* is written as an empty cell, and an empty cell or a cell holding one of
\* NaValues is read as missing
ReadExcel(frame) ==
    [columns |-> frame.columns,
     rows |-> [k \in 1..Len(frame.rows) |->
                 [c \in DOMAIN frame.rows[k] |->
                     IF frame.rows[k][c] \in NaValues THEN NaN ELSE frame.rows[k][c]]]]

\* documents: three of DocPool (two that yield a record, one without text)
\* and one whose name without its extension is "NA"
ResubmitDocPool ==
    {d \in DocPool : d.text \in {T_LABELLED, T_BARE, T_BLANK} /\ ~d.fault}
    \cup {[filename |-> <<"N","A">> \o PDF, text |-> T_LABELLED, fault |-> FALSE]}

\* spreadsheets of the first request: those of ExcelPool with one row at most
ResubmitExcelPool == {e \in ExcelPool : Len(e.df.rows) <= 1}

InitResubmit ==
    /\ pc = "loop"
    /\ pdf_paths \in DistinctSeqsUpTo(ResubmitDocPool, MaxPdfs) \ {<<>>}
    /\ excel \in ResubmitExcelPool
    /\ merge_duplicates \in BOOLEAN
    /\ duplicate_check \in {"description", "none"}
    /\ next_pdf = 1
    /\ acc = EmptyAcc
    /\ out_file = <<>>
    /\ response_data = [status |-> 0]
    /\ rs_round = 1 /\ rs_first = <<>>
    /\ MergeIdle /\ DedupIdle /\ SessionsIdle /\ ExtractIdle

\* the second request: its spreadsheet is the file the first request wrote
Resubmit ==
    /\ rs_round = 1
    /\ pc = "done" /\ response_data.status = 200
    /\ rs_round' = 2
    /\ rs_first' = out_file
    /\ excel' = [readable |-> TRUE, df |-> ReadExcel(out_file[1])]
    /\ next_pdf' = 1
    /\ acc' = EmptyAcc
    /\ response_data' = [status |-> 0]
    /\ pc' = "loop"
    /\ UNCHANGED <<pdf_paths, merge_duplicates, duplicate_check, out_file,
                   mergeVars, dedupVars, sessionVars, extractVars>>

NextResubmit ==
    \/ Next
    \/ Resubmit

SpecResubmit == InitResubmit /\ [][NextResubmit]_vars

(***************************************************************************)
(* SpecExtract: one call of an extractor. ex_fn names the function called, *)
(* ex_arg is its argument (the value of clean_numeric_value, the text of   *)
(* the others), ex_name the source_filename of parse_sds_data.             *)
(***************************************************************************)
MaxValueLen == 4
MaxLines == 2

\* the characters of the values given to clean_numeric_value
ValueChars == {"1", "5", ",", ".", ":", " ", "m"}

ValuePool ==
    SeqsUpTo(ValueChars, MaxValueLen)
    \cup {NDA, NDA_LC, NA_LC, NA_UC, t_Not_Available, t_12_5_mg, t_1_234_5, t_12_5_6}

\* a text of the lines ls, each ended by a line feed
RECURSIVE JoinLines(_)
JoinLines(ls) == IF ls = <<>> THEN <<>> ELSE Head(ls) \o <<NEWLINE>> \o JoinLines(Tail(ls))

TextsOf(lines) == {JoinLines(ls) : ls \in SeqsUpTo(lines, MaxLines)}

FlammableLines == {
    <<t_LEL, COLON, SPACE, t_2_1, PERCENT, SPACE, t_UEL, COLON, SPACE, t_12_8, PERCENT>>,
    <<t_Flammable_limits, COLON, SPACE, t_1_4, SPACE, DASH, SPACE, t_7_6, PERCENT>>,
    <<t_Flammability_limits, COLON, SPACE, t_1_4, SPACE, DASH, SPACE, t_7_6, PERCENT>>,
    <<LPAREN, t_1_4, SPACE, DASH, SPACE, t_7_6, PERCENT, RPAREN>>,
    <<t_LEL, COLON, SPACE, t_2_1, SPACE, p_vol_pct, SPACE,
      t_UEL, COLON, SPACE, t_12_8, SPACE, p_vol_pct>>,
    <<t_Flammable_range, COLON, SPACE, t_1_4, SPACE, DASH, SPACE, t_7_6, PERCENT>>,
    <<t_LEL, COLON, SPACE, t_3, PERCENT>>,
    <<t_UEL, COLON, SPACE, t_9, PERCENT>>,
    <<t_Non_flammable>>,
    <<t_Flammable_limits, COLON, SPACE, NA_UC>>,
    <<t_Keep_cool>> }

StaticLines == {
    <<t_No_static_hazard>>,
    <<t_Static_hazard, COLON, SPACE, t_No>>,
    <<t_Static_discharge, COLON, SPACE, NA_UC>>,
    <<t_Precautionary_measures_against, SPACE, t_static_discharge>>,
    <<t_Ground, SPACE, t_and, SPACE, t_bond, SPACE, t_container>>,
    <<t_Electrostatic_charge>>,
    <<t_Handling_and_storage>>,
    <<t_SECTION_7, COLON, SPACE, t_Storage>>,
    <<t_Keep_cool>> }

CasLines == {
    <<L_CAS_NO, SPACE, CAS_A>>,
    <<L_CAS_NO>>,
    <<L_CAS_HASH, CAS_B>>,
    <<CAS_A>>,
    <<CAS_B>>,
    <<t_Keep_cool>> }

ParseLines == {
    <<t_Density, SPACE, t_and_or_relative_density, COLON, SPACE, t_0_9>>,
    <<t_Density, SPACE, t_and_or_relative_density, COLON, SPACE, t_Not_measured>>,
    <<t_Relative, SPACE, t_Density, COLON, SPACE, t_0_8>>,
    <<t_Density, COLON, SPACE, t_1_2, SPACE, t_g_cm3>>,
    <<t_Specific_gravity, COLON, SPACE, t_1_1>>,
    <<t_Vapour_pressure, COLON>>,
    <<t_Vapour_pressure, COLON, SPACE, t_2_3, SPACE, t_kPa>>,
    <<t_Trade_Name, COLON, SPACE, t_Solvex>>,
    <<t_TLV, COLON, SPACE, t_50, SPACE, t_ppm>>,
    <<t_LEL, COLON, SPACE, t_3, PERCENT>>,
    <<t_Static_discharge, COLON, SPACE, NA_UC>> }

FileNames == { DescA \o PDF, <<"d",".","v","2">> \o PDF }

Extractors == {"clean_numeric_value", "extract_flammable_limits", "extract_static_hazard",
               "extract_cas_number", "parse_sds_data"}

ArgPool(fn) ==
    CASE fn = "clean_numeric_value" -> ValuePool
      [] fn = "extract_flammable_limits" -> TextsOf(FlammableLines)
      [] fn = "extract_static_hazard" -> TextsOf(StaticLines)
      [] fn = "extract_cas_number" -> TextsOf(CasLines)
      [] fn = "parse_sds_data" -> TextsOf(ParseLines)

InitExtract ==
    /\ ex_pc = "call"
    /\ ex_fn \in Extractors
    /\ ex_arg \in ArgPool(ex_fn)
    /\ ex_name \in IF ex_fn = "parse_sds_data" THEN FileNames ELSE {<<>>}
    /\ ex_result = <<>>
    /\ MergeIdle /\ DedupIdle /\ UploadIdle /\ ResubmitIdle /\ SessionsIdle

Return(fn, result) ==
    /\ ex_pc = "call" /\ ex_fn = fn
    /\ ex_result' = result
    /\ ex_pc' = "return"
    /\ UNCHANGED <<ex_fn, ex_arg, ex_name, mergeVars, dedupVars, uploadVars,
                   resubmitVars, sessionVars>>

CleanNumericValue == Return("clean_numeric_value", clean_numeric_value(ex_arg))

ExtractFlammableLimits == Return("extract_flammable_limits", extract_flammable_limits(ex_arg))

ExtractStaticHazard == Return("extract_static_hazard", extract_static_hazard(ex_arg))

ExtractCasNumber == Return("extract_cas_number", extract_cas_number(ex_arg))

ParseSdsData == Return("parse_sds_data", parse_sds_data(ex_arg, ex_name))

NextExtract ==
    \/ CleanNumericValue
    \/ ExtractFlammableLimits
    \/ ExtractStaticHazard
    \/ ExtractCasNumber
    \/ ParseSdsData

SpecExtract == InitExtract /\ [][NextExtract]_vars

(***************************************************************************)
(* SpecSessions: two requests to /api/upload served at once (each with its *)
(* own session directory, documents, spreadsheet and options), each        *)
(* followed by the download of the outputFile its response names. Both     *)
(* write /tmp/extracted_msds.xlsx, the file out_file, and download_file    *)
(* serves that file.                                                       *)
(***************************************************************************)
Sessions == {1, 2}

\* the file while a writer holds it open: opened for writing, not yet saved
Torn == [torn |-> TRUE]

SessionBatches == {
    << [filename |-> DescA \o PDF, text |-> T_LABELLED, fault |-> FALSE] >>,
    << [filename |-> DescB \o PDF, text |-> T_BARE, fault |-> FALSE] >>,
    << [filename |-> DescC \o PDF, text |-> T_BLANK, fault |-> FALSE] >> }

SessionExcels == {
    [readable |-> FALSE, df |-> [columns |-> <<>>, rows |-> <<>>]],
    [readable |-> TRUE, df |-> [columns |-> COLUMNS, rows |-> << MkRow(DescA_UC, CAS_B, Liquid) >>]] }

InitSessions ==
    /\ ses \in [Sessions ->
                  [pc : {"saved"}, pdf_paths : SessionBatches, excel : SessionExcels,
                   merge_duplicates : {FALSE}, duplicate_check : {"none", "description"},
                   combined_df : {<<>>}, raced : {FALSE}, status : {0}, served : {<<>>}]]
    /\ pc = "idle" /\ pdf_paths = <<>>
    /\ excel = [readable |-> FALSE, df |-> [columns |-> <<>>, rows |-> <<>>]]
    /\ merge_duplicates = FALSE /\ duplicate_check = "none"
    /\ next_pdf = 1 /\ acc = EmptyAcc /\ out_file = <<>>
    /\ response_data = [status |-> 0]
    /\ MergeIdle /\ DedupIdle /\ ResubmitIdle /\ ExtractIdle

SessionUnchanged ==
    UNCHANGED <<pc, pdf_paths, excel, merge_duplicates, duplicate_check, next_pdf, acc,
                response_data, mergeVars, dedupVars, resubmitVars, extractVars>>

\* the loop, and "if not all_data": the error, 400
SessionReject(s) ==
    /\ ses[s].pc = "saved"
    /\ ProcessAll(EmptyAcc, ses[s].pdf_paths, 1).all_data = <<>>
    /\ ses' = [ses EXCEPT ![s].pc = "done", ![s].status = 400]
    /\ UNCHANGED out_file
    /\ SessionUnchanged

\* the loop, the merge, the read of the spreadsheet, the filter, the concat
SessionConsolidate(s) ==
    /\ ses[s].pc = "saved"
    /\ LET all_data == ProcessAll(EmptyAcc, ses[s].pdf_paths, 1).all_data
       IN  /\ all_data # <<>>
           /\ ses' = [ses EXCEPT
                        ![s].pc = "write",
                        ![s].combined_df =
                            << Consolidate(all_data, ses[s].merge_duplicates,
                                           ses[s].duplicate_check, ses[s].excel).combined_df >>]
    /\ UNCHANGED out_file
    /\ SessionUnchanged

\* with pd.ExcelWriter(output_path, engine='openpyxl') as writer: the file is
\* opened for writing; a writer that holds it open at the same time as
\* another one races with it
SessionOpen(s) ==
    /\ ses[s].pc = "write"
    /\ out_file' = <<Torn>>
    /\ ses' = [t \in Sessions |->
                 IF t = s
                 THEN [ses[t] EXCEPT !.pc = "writing",
                                     !.raced = \E u \in Sessions \ {s} : ses[u].pc = "writing"]
                 ELSE IF ses[t].pc = "writing" THEN [ses[t] EXCEPT !.raced = TRUE]
                 ELSE ses[t]]
    /\ SessionUnchanged

\* the end of the with block saves the workbook; then the response, which
\* names outputFile. After a race the file holds this dataset or no dataset.
SessionSave(s) ==
    /\ ses[s].pc = "writing"
    /\ out_file' \in {ses[s].combined_df} \cup (IF ses[s].raced THEN {<<Torn>>} ELSE {})
    /\ ses' = [ses EXCEPT ![s].pc = "responded", ![s].status = 200]
    /\ SessionUnchanged

\* download_file("extracted_msds.xlsx"): the file exists, and is sent
SessionDownload(s) ==
    /\ ses[s].pc = "responded"
    /\ out_file # <<>>
    /\ ses' = [ses EXCEPT ![s].pc = "done", ![s].served = out_file]
    /\ UNCHANGED out_file
    /\ SessionUnchanged

NextSessions ==
    \/ \E s \in Sessions : SessionReject(s)
    \/ \E s \in Sessions : SessionConsolidate(s)
    \/ \E s \in Sessions : SessionOpen(s)
    \/ \E s \in Sessions : SessionSave(s)
    \/ \E s \in Sessions : SessionDownload(s)

SpecSessions == InitSessions /\ [][NextSessions]_vars

(***************************************************************************)
(* Vocabulary of the claims.                                               *)
(***************************************************************************)
\* trimmed, case-insensitive form of a text value
Norm(v) == Lower(Strip(v))

\* a record lacks a CAS number: "NDA", empty or "n/a", case-insensitively
CasLess(r) == Norm(r["CAS Number"]) \in {<<"n","d","a">>, <<>>, <<"n","/","a">>}

\* two rows of a batch belong to the same identity-key group
SameGroup(rows, i, j) ==
    \/ i = j
    \/ /\ ~CasLess(rows[i]) /\ ~CasLess(rows[j])
       /\ Strip(rows[i]["CAS Number"]) = Strip(rows[j]["CAS Number"])

\* the rows that open a group
Firsts(rows) == {i \in 1..Len(rows) : \A j \in 1..(i - 1) : ~SameGroup(rows, i, j)}

SetMin(S) == CHOOSE x \in S : \A y \in S : x <= y

\* the value the claim gives column col of the group opened by row f, with S
\* the values that count as sentinels
GroupValue(rows, f, col, S) ==
    LET present == {j \in f..Len(rows) : SameGroup(rows, f, j) /\ rows[j][col] \notin S}
    IN  IF present = {} THEN rows[f][col] ELSE rows[SetMin(present)][col]

\* the result is one record per group, in order of first occurrence, each
\* column holding its group value
OneRecordPerGroup(rows, result, S) ==
    LET firsts == Firsts(rows)
    IN  /\ Len(result) = Cardinality(firsts)
        /\ \A f \in firsts :
            LET k == Cardinality({g \in firsts : g < f}) + 1
            IN  \A col \in ColumnSet : result[k][col] = GroupValue(rows, f, col, S)

\* the new record matches some existing row on column col (missing cells match
\* nothing)
MatchesOn(existing_df, row, col) ==
    \E k \in 1..Len(existing_df.rows) :
        /\ existing_df.rows[k][col] # NaN
        /\ Norm(existing_df.rows[k][col]) = Norm(row[col])

\* the new record matches some existing row on CAS Number, "NDA" cells of the
\* existing dataset matching nothing
MatchesCas(existing_df, row) ==
    /\ MatchesOn(existing_df, row, "CAS Number")
    /\ Norm(row["CAS Number"]) # <<"n","d","a">>

\* the merge loop has just taken row mg_rows[mg_next]; S are the sentinels
MergeStepKeeps(S) ==
    (mg_pc = "loop" /\ mg_pc' = "loop" /\ mg_next' = mg_next + 1) =>
        /\ Len(merged') >= Len(merged)
        /\ \A k \in 1..Len(merged) : \A col \in ColumnSet :
            /\ merged'[k].key = merged[k].key
            /\ merged[k].rec[col] \notin S => merged'[k].rec[col] = merged[k].rec[col]
            /\ merged'[k].rec[col] # merged[k].rec[col] =>
                    /\ merged[k].rec[col] \in S
                    /\ mg_rows[mg_next][col] \notin S
                    /\ merged'[k].rec[col] = mg_rows[mg_next][col]

(***************************************************************************)
(* C1. With duplicate_check = "both", check_for_duplicates excludes a new  *)
(* record only when it matches an existing row on CAS Number and on        *)
(* Description at once: a record new in either dimension is kept.          *)
(* (The claim as stated.)                                                  *)
(***************************************************************************)
C1_Original ==
    (dd_pc = "done" /\ dd_mode = "both") =>
        \A k \in 1..Len(dd_new) :
            (~MatchesCas(dd_existing, dd_new[k])
                \/ ~MatchesOn(dd_existing, dd_new[k], "Description"))
            => \E j \in 1..Len(dd_result.df) : dd_result.df[j] = dd_new[k]

(***************************************************************************)
(* C1, amended. With duplicate_check = "both", check_for_duplicates keeps  *)
(* exactly the new records that are new in both dimensions: a record is    *)
(* excluded as soon as it matches an existing row on CAS Number or on      *)
(* Description; the records kept stay in batch order.                      *)
(***************************************************************************)
C1_BothKeepsOnlyNewInBoth ==
    (dd_pc = "done" /\ dd_mode = "both") =>
        /\ ~dd_result.raised
        /\ dd_result.df =
              SelectSeq(dd_new, LAMBDA r :
                  ~MatchesCas(dd_existing, r)
                  /\ ~MatchesOn(dd_existing, r, "Description"))

\* a record that matches on Description alone has been dropped
C1_Witness ==
    /\ dd_pc = "done" /\ dd_mode = "both"
    /\ \E k \in 1..Len(dd_new) :
        /\ ~MatchesCas(dd_existing, dd_new[k])
        /\ MatchesOn(dd_existing, dd_new[k], "Description")
        /\ \A j \in 1..Len(dd_result.df) : dd_result.df[j] # dd_new[k]

(***************************************************************************)
(* C2. With merging enabled no later record changes a column of a group's  *)
(* accumulated record that holds a non-sentinel value; a column is written *)
(* only when its current value is a sentinel (NDA / empty) and the later   *)
(* record's value is not. (The claim as stated.)                           *)
(***************************************************************************)
C2_Original == [][MergeStepKeeps({NDA, EMPTY})]_vars

(***************************************************************************)
(* C2, amended. The same, with the literal "n/a" counted among the         *)
(* sentinels beside "NDA" and the empty string: a column of the            *)
(* accumulated record holding any other value is never changed, and a      *)
(* column is written only when it holds one of these three and the later   *)
(* record's value is none of them.                                         *)
(***************************************************************************)
C2_MergeNeverOverwrites == [][MergeStepKeeps({NDA, EMPTY, <<"n","/","a">>})]_vars

\* two records of one group held different values in a column, and the merge
\* kept the first
C2_Witness ==
    /\ mg_pc = "done" /\ mg_flag
    /\ \E i, j \in 1..Len(mg_rows) : \E k \in 1..Len(mg_result) :
        /\ i < j /\ i \in Firsts(mg_rows) /\ SameGroup(mg_rows, i, j)
        /\ mg_rows[i]["Physical state"] \notin {NDA, EMPTY, <<"n","/","a">>}
        /\ mg_rows[j]["Physical state"] \notin {NDA, EMPTY, <<"n","/","a">>}
        /\ mg_rows[i]["Physical state"] # mg_rows[j]["Physical state"]
        /\ mg_result[k]["Description"] = mg_rows[i]["Description"]
        /\ mg_result[k]["Physical state"] = mg_rows[i]["Physical state"]

(***************************************************************************)
(* C3. With duplicate_check = "cas", check_for_duplicates removes a new    *)
(* record if and only if its identity key (its CAS Number, unless that is  *)
(* "NDA", empty or "n/a") is the identity key of some existing row, under  *)
(* a trimmed, case-insensitive comparison; a record without a CAS number   *)
(* is never removed.                                                       *)
(***************************************************************************)
C3_Claim ==
    (dd_pc = "done" /\ dd_mode = "cas") =>
        dd_result.df =
            SelectSeq(dd_new, LAMBDA r :
                ~(~CasLess(r) /\ MatchesOn(dd_existing, r, "CAS Number")))

(***************************************************************************)
(* C4. With merging enabled two records without a CAS number are never     *)
(* merged: every CAS-less row taken so far has its own entry, equal to the *)
(* row, whatever the order and the Descriptions.                           *)
(***************************************************************************)
C4_CasLessNeverMerged ==
    (mg_pc \in {"loop", "done"} /\ mg_flag) =>
        LET taken == 1..(mg_next - 1)
        IN  /\ Len(merged) =
                Cardinality({Strip(mg_rows[i]["CAS Number"]) :
                                i \in {j \in taken : ~CasLess(mg_rows[j])}})
                + Cardinality({i \in taken : CasLess(mg_rows[i])})
            /\ \A i \in taken : CasLess(mg_rows[i]) =>
                    \E k \in 1..Len(merged) : merged[k].rec = mg_rows[i]
            /\ mg_pc = "done" => Len(mg_result) = Len(merged)

\* two CAS-less records with the same Description both came out
C4_Witness ==
    /\ mg_pc = "done" /\ mg_flag
    /\ \E i, j \in 1..Len(mg_rows) :
        /\ i < j /\ CasLess(mg_rows[i]) /\ CasLess(mg_rows[j])
        /\ mg_rows[i]["Description"] = mg_rows[j]["Description"]
        /\ mg_rows[i]["CAS Number"] # mg_rows[j]["CAS Number"]
    /\ Len(mg_result) = Len(mg_rows)

(***************************************************************************)
(* C5. With merging enabled the result has one record per identity key, in *)
(* order of first occurrence, and every column holds the first             *)
(* non-sentinel value among the group's members (the first member's value  *)
(* when all are sentinels), a sentinel being "NDA" or the empty string.    *)
(* (The claim as stated.)                                                  *)
(***************************************************************************)
C5_Original ==
    (mg_pc = "done" /\ mg_flag) =>
        OneRecordPerGroup(mg_rows, mg_result, {NDA, EMPTY})

(***************************************************************************)
(* C5, amended. The same, with the literal "n/a" counted among the         *)
(* sentinels: one record per identity key in order of first occurrence,    *)
(* every column holding the first value among the group's members that is  *)
(* none of "NDA", "" and "n/a", or the first member's value when there is  *)
(* none.                                                                   *)
(***************************************************************************)
C5_OneRecordPerKey ==
    (mg_pc = "done" /\ mg_flag) =>
        OneRecordPerGroup(mg_rows, mg_result, {NDA, EMPTY, <<"n","/","a">>})

\* a group of three whose first member holds a sentinel that a later member
\* fills
C5_Witness ==
    /\ mg_pc = "done" /\ mg_flag /\ Len(mg_rows) = 3
    /\ Cardinality(Firsts(mg_rows)) = 2
    /\ \E i, j \in 1..Len(mg_rows) :
        /\ i < j /\ i \in Firsts(mg_rows) /\ SameGroup(mg_rows, i, j)
        /\ mg_rows[i]["Physical state"] = NDA
        /\ mg_rows[j]["Physical state"] = Liquid
        /\ \E k \in 1..Len(mg_result) :
            /\ mg_result[k]["Description"] = mg_rows[i]["Description"]
            /\ mg_result[k]["Physical state"] = Liquid

(***************************************************************************)
(* C6. On a batch in which no two records share an identity key, merging   *)
(* enabled returns the same records, as many times each, as merging        *)
(* disabled, which returns the batch unchanged.                            *)
(***************************************************************************)
Occurrences(seq, r) == Cardinality({k \in 1..Len(seq) : seq[k] = r})

C6_MergeOfDistinctKeysIsIdentity ==
    (mg_pc = "done" /\ Firsts(mg_rows) = 1..Len(mg_rows)) =>
        /\ ~mg_flag => mg_result = mg_rows
        /\ mg_flag =>
            /\ Len(mg_result) = Len(mg_rows)
            /\ \A r \in RowPool : Occurrences(mg_result, r) = Occurrences(mg_rows, r)
            /\ mg_result = merge_by_cas_number_optional(mg_rows, FALSE)

\* a merged batch of distinct keys with a CAS-less record among them
C6_Witness ==
    /\ mg_pc = "done" /\ mg_flag /\ Len(mg_rows) >= 2
    /\ Firsts(mg_rows) = 1..Len(mg_rows)
    /\ \E i, j \in 1..Len(mg_rows) :
        /\ i # j /\ CasLess(mg_rows[i]) /\ ~CasLess(mg_rows[j])
    /\ mg_result = mg_rows

(***************************************************************************)
(* C7. With duplicate_check = "description", check_for_duplicates drops a  *)
(* new record if and only if its Description equals, trimmed and           *)
(* case-folded, the Description of some existing row; the CAS Number plays *)
(* no part, and the records kept stay in batch order with their values.    *)
(***************************************************************************)
C7_DescriptionDropsIffSameDescription ==
    (dd_pc = "done" /\ dd_mode = "description") =>
        /\ ~dd_result.raised
        /\ dd_result.df =
              SelectSeq(dd_new, LAMBDA r : ~MatchesOn(dd_existing, r, "Description"))

\* a record was dropped for a Description that differs in case and spacing
\* only, though its CAS Number is new, and one whose CAS Number is known was kept
C7_Witness ==
    /\ dd_pc = "done" /\ dd_mode = "description"
    /\ Len(dd_new) = 2 /\ Len(dd_result.df) = 1
    /\ \E k \in 1..Len(dd_existing.rows) :
        /\ dd_existing.rows[k]["Description"] # NaN
        /\ dd_existing.rows[k]["Description"] # dd_new[1]["Description"]
        /\ Norm(dd_existing.rows[k]["Description"]) = Norm(dd_new[1]["Description"])
    /\ ~MatchesCas(dd_existing, dd_new[1])
    /\ MatchesCas(dd_existing, dd_new[2])
    /\ dd_result.df[1] = dd_new[2]


(***************************************************************************)
(* C8. A document that yields no text, or whose processing raises, is      *)
(* recorded as skipped with a reason and the loop goes on: after the loop  *)
(* processed + skipped = the number of documents, the records are those of *)
(* the other documents in input order, and the skipped list names the      *)
(* failed ones in input order.                                             *)
(***************************************************************************)
Failing(d) == d.fault \/ NoText(d.text)

C8_SkipsAreNotFatal ==
    (pc \in {"consolidate", "done"}) =>
        LET good == SelectSeq(pdf_paths, LAMBDA d : ~Failing(d))
            bad == SelectSeq(pdf_paths, LAMBDA d : Failing(d))
        IN  /\ acc.processed_files + Len(acc.skipped_files) = Len(pdf_paths)
            /\ acc.processed_files = Len(good)
            /\ acc.all_data =
                  [k \in 1..Len(good) |-> parse_sds_data(good[k].text, good[k].filename)]
            /\ Len(acc.skipped_files) = Len(bad)
            /\ \A k \in 1..Len(bad) :
                /\ acc.skipped_files[k].file = bad[k].filename
                /\ acc.skipped_files[k].reason =
                      IF bad[k].fault THEN "processing error" ELSE "no text extracted"
            /\ (pc = "done" /\ good # <<>>) =>
                /\ response_data.status = 200
                /\ response_data.processedFiles = Len(good)
                /\ response_data.skippedFiles = acc.skipped_files

\* three documents, the second of which fails: processed 2, skipped 1
C8_Witness ==
    /\ pc = "done" /\ Len(pdf_paths) = 3
    /\ ~Failing(pdf_paths[1]) /\ Failing(pdf_paths[2]) /\ ~Failing(pdf_paths[3])
    /\ response_data.status = 200
    /\ response_data.processedFiles = 2
    /\ Len(response_data.skippedFiles) = 1
    /\ Len(acc.all_data) = 2

(***************************************************************************)
(* C9. When the existing dataset cannot be read the batch is not aborted:  *)
(* the file written is exactly the new batch (after the optional merge, in *)
(* the canonical columns), and the number of new entries reported is the   *)
(* number of its rows.                                                     *)
(***************************************************************************)
C9_UnreadableWritesNewBatch ==
    (pc = "done" /\ ~excel.readable /\ acc.all_data # <<>>) =>
        LET batch == merge_by_cas_number_optional(acc.all_data, merge_duplicates)
        IN  /\ response_data.status = 200
            /\ out_file = << [columns |-> COLUMNS, rows |-> batch] >>
            /\ ~merge_duplicates => out_file[1].rows = acc.all_data
            /\ response_data.newEntriesAdded = Len(batch)
            /\ response_data.totalEntriesInOutput = Len(batch)

\* an unreadable spreadsheet, a duplicate check asked for, two records written
C9_Witness ==
    /\ pc = "done" /\ ~excel.readable /\ duplicate_check = "description"
    /\ response_data.status = 200
    /\ response_data.newEntriesAdded = 2
    /\ Len(out_file[1].rows) = 2

(***************************************************************************)
(* C10. When the existing dataset is readable the file written holds every *)
(* existing row in its order, on exactly the canonical columns in their    *)
(* order with "NDA" in the columns the spreadsheet lacked, followed by the *)
(* new records that passed the duplicate filter in batch order; and        *)
(* totalEntriesInOutput = existing rows + newEntriesAdded.                 *)
(***************************************************************************)
\* s is t with some elements left out
RECURSIVE IsSubsequence(_, _)
IsSubsequence(s, t) ==
    IF s = <<>> THEN TRUE
    ELSE IF t = <<>> THEN FALSE
    ELSE IF Head(s) = Head(t) THEN IsSubsequence(Tail(s), Tail(t))
    ELSE IsSubsequence(s, Tail(t))

C10_ExistingRowsKeptThenNew ==
    (pc = "done" /\ excel.readable /\ response_data.status = 200) =>
        LET out == out_file[1]
            n == Len(excel.df.rows)
            batch == merge_by_cas_number_optional(acc.all_data, merge_duplicates)
            added == SubSeq(out.rows, n + 1, Len(out.rows))
        IN  /\ out.columns = COLUMNS
            /\ \A k \in 1..Len(out.rows) : DOMAIN out.rows[k] = ColumnSet
            /\ Len(out.rows) = n + response_data.newEntriesAdded
            /\ response_data.totalEntriesInOutput = Len(out.rows)
            /\ \A k \in 1..n : \A c \in ColumnSet :
                    out.rows[k][c] =
                        IF \E j \in 1..Len(excel.df.columns) : excel.df.columns[j] = c
                        THEN excel.df.rows[k][c]
                        ELSE NDA
            /\ IsSubsequence(added, batch)
            /\ added = check_for_duplicates([columns |-> COLUMNS,
                                             rows |-> SubSeq(out.rows, 1, n)],
                                            batch, duplicate_check).df

\* a spreadsheet with other columns and two rows, to which part of the batch
\* was added
C10_Witness ==
    /\ pc = "done" /\ excel.readable /\ response_data.status = 200
    /\ excel.df.columns # COLUMNS /\ Len(excel.df.rows) = 2
    /\ excel.df.rows[1] # excel.df.rows[2]
    /\ response_data.newEntriesAdded >= 1
    /\ response_data.newEntriesAdded
          < Len(merge_by_cas_number_optional(acc.all_data, merge_duplicates))

(***************************************************************************)
(* C11. A batch in which every document is skipped ends with the batch     *)
(* error (status 400) and writes no file; a batch in which at least one    *)
(* document yields a record ends with status 200, a file written, and the  *)
(* counts of the documents processed and skipped, whatever the number of   *)
(* documents skipped.                                                      *)
(***************************************************************************)
C11_EmptyBatchFailsOthersSucceed ==
    (pc = "done") =>
        LET yielded == {k \in 1..Len(pdf_paths) : ~Failing(pdf_paths[k])}
        IN  IF yielded = {}
            THEN response_data = [status |-> 400] /\ out_file = <<>>
            ELSE /\ response_data.status = 200
                 /\ out_file # <<>>
                 /\ response_data.processedFiles = Cardinality(yielded)
                 /\ response_data.totalFiles = Len(pdf_paths)
                 /\ Len(response_data.skippedFiles)
                        = Len(pdf_paths) - Cardinality(yielded)
                 /\ response_data.totalEntriesInOutput = Len(out_file[1].rows)
                 /\ response_data.newEntriesAdded <= response_data.totalEntriesInOutput

\* two documents, one without text and one whose processing raised: the batch
\* error, and no file
C11_Witness ==
    /\ pc = "done" /\ Len(pdf_paths) = 2
    /\ pdf_paths[1].fault /\ NoText(pdf_paths[2].text)
    /\ Len(acc.skipped_files) = 2
    /\ response_data.status = 400
    /\ out_file = <<>>

(***************************************************************************)
(* C12. A document for which an extractor raises while parse_sds_data      *)
(* assembles its record still yields a record (with "NDA" in the field of  *)
(* that extractor): once the loop has taken the document, all_data holds a *)
(* record of it.                                                           *)
(***************************************************************************)
C12_Claim ==
    \A k \in 1..(next_pdf - 1) :
        (pdf_paths[k].fault /\ ~NoText(pdf_paths[k].text)) =>
            \E j \in 1..Len(acc.all_data) :
                /\ DOMAIN acc.all_data[j] = ColumnSet
                /\ acc.all_data[j]["Description"] = SplitExt(pdf_paths[k].filename)

(***************************************************************************)
(* C13. The record parse_sds_data returns has exactly the 19 columns of    *)
(* COLUMNS, and each of them holds "NDA" or a non-empty string: a label    *)
(* that matches with nothing, or only white space, after it leaves no      *)
(* empty string in the record.                                             *)
(***************************************************************************)
C13_Claim ==
    (ex_pc = "return" /\ ex_fn = "parse_sds_data") =>
        /\ DOMAIN ex_result = ColumnSet
        /\ Cardinality(DOMAIN ex_result) = 19
        /\ \A c \in ColumnSet : ex_result[c] = NDA \/ ex_result[c] # <<>>

(***************************************************************************)
(* C14. The Density of a record follows the priority "Density and / or     *)
(* relative density" > "Relative Density" > "Density" > the fallbacks: it  *)
(* is the value of the first of them, in this order, that matches with a   *)
(* value that is not discarded, whatever the later ones match.             *)
(***************************************************************************)
\* the value the priority gives: each step runs only while density is "NDA"
DensityByPriority(text, low) ==
    Only({IF d1 # NDA THEN d1
          ELSE Only({IF d2 # NDA THEN d2
                     ELSE Only({IF d3 # NDA THEN d3 ELSE DensityFallback(d3, text, low) :
                                  d3 \in {DensityStep(NDA, bare_density, {}, 1, text, low)}}) :
                       d2 \in {DensityStep(NDA, relative_density, {}, 1, text, low)}}) :
            d1 \in {DensityStep(NDA, density_and_or, {"I"}, 1, text, low)}})

C14_Claim ==
    (ex_pc = "return" /\ ex_fn = "parse_sds_data") =>
        ex_result["Density"] = DensityByPriority(ex_arg, LowerText(ex_arg))

(***************************************************************************)
(* C15. extract_flammable_limits tries every pattern form that captures    *)
(* both limits (same line, range, in parentheses, table, range in a        *)
(* flammable context) in that order, and the first that matches gives      *)
(* "LEL: x%, UEL: y%"; the searches for a single limit run only when none  *)
(* matched, the non-flammability declarations only when no limit was       *)
(* found, and the result is "NDA" otherwise.                               *)
(***************************************************************************)
\* the patterns of flammable_patterns that capture both limits
DualForms == SubSeq(flammable_patterns, 1, 10)

C15_Claim ==
    (ex_pc = "return" /\ ex_fn = "extract_flammable_limits") =>
        ex_result = FlammableLimits(ex_arg, DualForms)

(***************************************************************************)
(* C16. extract_static_hazard decides in order: "No" when a no-static      *)
(* phrase is in the text, even next to static terms; else "Yes" when a     *)
(* static, electrostatic or grounding-and-bonding term is in it; else "No" *)
(* when a handling or storage heading is in it; else "NDA". Its result is  *)
(* one of "Yes", "No", "NDA".                                              *)
(***************************************************************************)
NoStaticPhrase(text) == AnyMatch(no_static_patterns, {"I"}, text, LowerText(text))
StaticTerm(text) == AnyMatch(static_patterns, {"I"}, text, LowerText(text))
HandlingHeading(text) == AnyMatch(handling_sections, {"I"}, text, LowerText(text))

C16_StaticHazardOrderedDecision ==
    (ex_pc = "return" /\ ex_fn = "extract_static_hazard") =>
        /\ ex_result \in {Yes, No, NDA}
        /\ NoStaticPhrase(ex_arg) => ex_result = No
        /\ (~NoStaticPhrase(ex_arg) /\ StaticTerm(ex_arg)) => ex_result = Yes
        /\ (~NoStaticPhrase(ex_arg) /\ ~StaticTerm(ex_arg) /\ HandlingHeading(ex_arg))
              => ex_result = No
        /\ (~NoStaticPhrase(ex_arg) /\ ~StaticTerm(ex_arg) /\ ~HandlingHeading(ex_arg))
              => ex_result = NDA

\* "Static discharge: N/A" is a no-static phrase and holds a static term
C16_Witness ==
    /\ ex_pc = "return" /\ ex_fn = "extract_static_hazard"
    /\ ex_arg = JoinLines(<< <<t_Static_discharge, COLON, SPACE, NA_UC>> >>)
    /\ NoStaticPhrase(ex_arg) /\ StaticTerm(ex_arg)
    /\ ex_result = No

(***************************************************************************)
(* C17. clean_numeric_value returns "NDA" for a no-data literal ("nda",    *)
(* "n/a", "not available" in any case, or the empty value) and for a value *)
(* without a digit; for any other value it returns the first numeric run,  *)
(* a comma before its last digits turned into a dot ("  :  12,5 mg" gives  *)
(* "12.5"). Its result is "NDA" or holds a digit.                          *)
(***************************************************************************)
C17_Claim ==
    (ex_pc = "return" /\ ex_fn = "clean_numeric_value") =>
        /\ (ex_arg = <<>> \/ Lower(ex_arg) \in NoDataLiterals \/ ~HasDigit(ex_arg))
              => ex_result = NDA
        /\ ex_arg = t_12_5_mg => ex_result = <<"1", "2", ".", "5">>
        /\ ex_result = NDA \/ HasDigit(ex_result)

(***************************************************************************)
(* C18. extract_cas_number takes the first of its rules, in the order of   *)
(* the list, that matches: when a labelled rule matches, the number after  *)
(* the first label of the earliest such rule, even when a bare number      *)
(* comes earlier in the text; when none does, the first bare number; "NDA" *)
(* when the text holds no number of that shape. The number is returned as  *)
(* written, with its dashes, and not through clean_numeric_value.          *)
(***************************************************************************)
C18_CasFirstRuleWins ==
    (ex_pc = "return" /\ ex_fn = "extract_cas_number") =>
        LET rules == {p \in 1..Len(CasLabels) : LabelledMatches(ex_arg, CasLabels[p]) # {}}
            bare == {k \in 1..Len(ex_arg) : IsCasShaped(ex_arg[k])}
        IN  /\ rules # {} =>
                  LET p == SetMinOf(rules)
                      k == SetMinOf(LabelledMatches(ex_arg, CasLabels[p]))
                  IN  ex_result = ex_arg[NextToken(ex_arg, k)]
            /\ (rules = {} /\ bare # {}) => ex_result = ex_arg[SetMinOf(bare)]
            /\ bare = {} => ex_result = NDA
            /\ ex_result # NDA =>
                  /\ IsCasShaped(ex_result)
                  /\ ex_result # clean_numeric_value(ex_result)

\* a bare number on the first line, another one after a label on the second
C18_Witness ==
    /\ ex_pc = "return" /\ ex_fn = "extract_cas_number"
    /\ ex_arg = JoinLines(<< <<CAS_B>>, <<L_CAS_NO, SPACE, CAS_A>> >>)
    /\ ex_result = CAS_A

(***************************************************************************)
(* C19. The result of an upload is isolated from the other uploads: in any *)
(* interleaving of two requests, the file the download endpoint serves for *)
(* the outputFile of a request holds the combined dataset of that request  *)
(* (its existing rows followed by its new entries).                        *)
(***************************************************************************)
C19_Claim ==
    \A s \in DOMAIN ses :
        ses[s].served # <<>> => ses[s].served = ses[s].combined_df

\* C20: re-submitting a batch is idempotent under description-based
\* duplicate checking: when the dataset written by one operation is the
\* existing dataset of a second operation over the same documents, with
\* duplicate_check = "description" the second operation adds no new entry and
\* its output has the rows of the first output in the same order; with
\* duplicate_check = "none" it appends every record of the batch again
C20_Claim ==
    (rs_round = 2 /\ pc = "done" /\ response_data.status = 200) =>
        /\ duplicate_check = "description" =>
              /\ response_data.newEntriesAdded = 0
              /\ out_file[1].rows = Reindex(ReadExcel(rs_first[1])).rows
        /\ duplicate_check = "none" =>
              /\ response_data.newEntriesAdded =
                    Len(merge_by_cas_number_optional(acc.all_data, merge_duplicates))
              /\ out_file[1].rows =
                    Reindex(ReadExcel(rs_first[1])).rows
                    \o NewDataFrame(merge_by_cas_number_optional(acc.all_data,
                                                                 merge_duplicates)).rows

=========================================================================
